---------------------------- MODULE Spec2Model ----------------------------
(***************************************************************************)
(* Model of the Heimdall signaling relay (server/signaling.js): the peer   *)
(* registry, the message handler with detection validation and broadcast,  *)
(* the pong handler, the liveness sweep and the close handler, of the pure  *)
(* payload validator validateDetectionPayload, and of the client handler   *)
(* (frontend/src/components/WebRTCHandler.jsx): its connection life cycle,  *)
(* reconnection, keepalive and peer-link object.                           *)
(***************************************************************************)
EXTENDS Integers, Sequences, FiniteSets, TLC

(***************************************************************************)
(* JavaScript values.  A value is a record tagged with its kind; objects   *)
(* are functions from property names to values, arrays are sequences.      *)
(***************************************************************************)
Undefined == [t |-> "undefined"]
Null == [t |-> "null"]
Num(n) == [t |-> "number", n |-> n]
Str(s) == [t |-> "string", s |-> s]
Obj(f) == [t |-> "object", o |-> f]
Arr(a) == [t |-> "array", a |-> a]

\* typeof v
TypeOf(v) ==
    CASE v.t = "undefined" -> "undefined"
      [] v.t = "number" -> "number"
      [] v.t = "string" -> "string"
      [] OTHER -> "object"

\* !v is false
Truthy(v) ==
    CASE v.t = "undefined" -> FALSE
      [] v.t = "null" -> FALSE
      [] v.t = "number" -> v.n # 0
      [] v.t = "string" -> v.s # ""
      [] OTHER -> TRUE

\* v.k for a value v that is neither null nor undefined
Get(v, k) == IF v.t = "object" /\ k \in DOMAIN v.o THEN v.o[k] ELSE Undefined

\* variant: an array counts only when it has an element
IsArrayNonEmpty(v) == v.t = "array" /\ v.a # <<>>

\* Array.isArray(v)
IsArray(v) == v.t = "array"

(***************************************************************************)
(* validateDetectionPayload (signaling.js 50-69).  A reason is the text of *)
(* the template string with the values interpolated into it: the index i   *)
(* (0-based, as in the code) and the key k.                                *)
(***************************************************************************)
Ok == [ok |-> TRUE]
Reject(reason) == [ok |-> FALSE, reason |-> reason]

\* a template string `...${i}...${k}...`: its text and the values interpolated
Reason(msg) == [t |-> "string", s |-> msg]
ReasonAt(msg, i) == [t |-> "string", s |-> msg, i |-> i]
ReasonKey(msg, i, k) == [t |-> "string", s |-> msg, i |-> i, k |-> k]

\* const keys = ['xmin','ymin','xmax','ymax']
keys == <<"xmin", "ymin", "xmax", "ymax">>

\* typeof x !== 'number' || x < 0 || x > 1
NotUnit(x) == TypeOf(x) # "number" \/ x.n < 0 \/ x.n > 1

\* for (const k of keys) ...: the first key of ks that fails, or "" when none does
RECURSIVE FirstBadKey(_, _)
FirstBadKey(d, ks) ==
    IF ks = <<>> THEN ""
    ELSE IF NotUnit(Get(d, Head(ks))) THEN Head(ks)
    ELSE FirstBadKey(d, Tail(ks))

\* variant: a box of no area passes
BoxOrderedLoose(d) ==
    Get(d, "xmin").n <= Get(d, "xmax").n /\ Get(d, "ymin").n <= Get(d, "ymax").n

\* d.xmin < d.xmax && d.ymin < d.ymax
BoxOrdered(d) ==
    Get(d, "xmin").n < Get(d, "xmax").n /\ Get(d, "ymin").n < Get(d, "ymax").n

\* variant: the score is checked before the label
CheckDetectionScoreFirst(d, i) ==
    IF ~Truthy(d) \/ TypeOf(d) # "object"
    THEN Reject(ReasonAt("detection[i] must be an object", i))
    ELSE IF NotUnit(Get(d, "score"))
    THEN Reject(ReasonAt("detection[i].score must be a number in [0,1]", i))
    ELSE IF TypeOf(Get(d, "label")) # "string"
    THEN Reject(ReasonAt("detection[i].label must be a string", i))
    ELSE IF FirstBadKey(d, keys) # ""
    THEN Reject(ReasonKey("detection[i].k must be number in [0,1]", i, FirstBadKey(d, keys)))
    ELSE IF ~BoxOrdered(d)
    THEN Reject(ReasonAt("detection[i] box coordinates invalid (xmin<xmax and ymin<ymax required)", i))
    ELSE Ok

\* the body of the loop over payload.detections, for the element d at index i
CheckDetection(d, i) ==
    IF ~Truthy(d) \/ TypeOf(d) # "object"
    THEN Reject(ReasonAt("detection[i] must be an object", i))
    ELSE IF TypeOf(Get(d, "label")) # "string"
    THEN Reject(ReasonAt("detection[i].label must be a string", i))
    ELSE IF NotUnit(Get(d, "score"))
    THEN Reject(ReasonAt("detection[i].score must be a number in [0,1]", i))
    ELSE IF FirstBadKey(d, keys) # ""
    THEN Reject(ReasonKey("detection[i].k must be number in [0,1]", i, FirstBadKey(d, keys)))
    ELSE IF ~BoxOrdered(d)
    THEN Reject(ReasonAt("detection[i] box coordinates invalid (xmin<xmax and ymin<ymax required)", i))
    ELSE Ok

\* for (let i = 0; i < payload.detections.length; i++) ..., from index i on
RECURSIVE CheckDetections(_, _)
CheckDetections(dets, i) ==
    IF i >= Len(dets) THEN Ok
    ELSE IF ~CheckDetection(dets[i + 1], i).ok THEN CheckDetection(dets[i + 1], i)
    ELSE CheckDetections(dets, i + 1)

\* variant: the detections are checked before frame_id and the timestamps
validateDetectionsFirst(payload) ==
    IF ~Truthy(payload) \/ TypeOf(payload) # "object"
    THEN Reject(Reason("payload must be an object"))
    ELSE IF ~IsArray(Get(payload, "detections"))
    THEN Reject(Reason("detections must be an array"))
    ELSE IF ~CheckDetections(Get(payload, "detections").a, 0).ok
    THEN CheckDetections(Get(payload, "detections").a, 0)
    ELSE IF Get(payload, "frame_id") = Undefined
    THEN Reject(Reason("missing frame_id"))
    ELSE IF TypeOf(Get(payload, "capture_ts")) # "number"
    THEN Reject(Reason("capture_ts must be a number (ms since epoch)"))
    ELSE IF TypeOf(Get(payload, "inference_ts")) # "number"
    THEN Reject(Reason("inference_ts must be a number (ms since epoch)"))
    ELSE Ok

validateDetectionPayload(payload) ==
    IF ~Truthy(payload) \/ TypeOf(payload) # "object"
    THEN Reject(Reason("payload must be an object"))
    ELSE IF Get(payload, "frame_id") = Undefined
    THEN Reject(Reason("missing frame_id"))
    ELSE IF TypeOf(Get(payload, "capture_ts")) # "number"
    THEN Reject(Reason("capture_ts must be a number (ms since epoch)"))
    ELSE IF TypeOf(Get(payload, "inference_ts")) # "number"
    THEN Reject(Reason("inference_ts must be a number (ms since epoch)"))
    ELSE IF ~IsArray(Get(payload, "detections"))
    THEN Reject(Reason("detections must be an array"))
    ELSE CheckDetections(Get(payload, "detections").a, 0)


(***************************************************************************)
(* The relay (signaling.js 48, 71-168).  Every handler runs to completion  *)
(* on the single event loop, so each is one action.                        *)
(***************************************************************************)
\* connections accepted in a run, at most
MaxConns == 3

\* connection k is the k-th socket the server accepted
Conns == 1 .. MaxConns

\* Math.random().toString(36).slice(2): identities are interchangeable, so
\* the identities a run can draw are numbered 1, 2, ...
Ids == 1 .. MaxConns
IdStr(id) == Str(ToString(id))

\* the values Date.now() returns in a run
Times == {1000, 1001}

VARIABLES
    peers,       \* the Map peers, in insertion order: a sequence of [id, ws]
    clients,     \* wss.clients: the sockets whose close event is still to come
    readyState,  \* ws.readyState of each connection
    isAlive,     \* ws.isAlive of each connection
    peerId,      \* the peerId each connection's handlers close over (0: none yet)
    accepted,    \* the number of connections accepted so far
    sinceResponse, \* sweeps that visited the socket since its last pong (or accept), capped at 2
    last,        \* the handler that ran last, with its input (Idle once it has returned)
    sent,        \* the send calls of that handler, in order
    vPayload,    \* validator check: the argument of validateDetectionPayload
    vResult,     \* validator check: its return value (None before the call)
    client,      \* the WebRTCHandler object, the browser objects it created, its run's calls
    capture      \* the capture component, its live WebSocket and timers, its run's calls

relayVars == <<peers, clients, readyState, isAlive, peerId, accepted, sinceResponse, last, sent>>
validatorVars == <<vPayload, vResult>>
registryVars == <<peers, clients, readyState, isAlive, peerId, accepted, sinceResponse>>
vars == <<peers, clients, readyState, isAlive, peerId, accepted, sinceResponse, last, sent,
          vPayload, vResult, client, capture>>

None == [t |-> "none"]

\* no handler is running and the record of the last run has been dropped
Idle == [op |-> "idle"]

\* peers.has(id), peers.get(id), peers.set(id, ws), peers.delete(id)
MapKeys(m) == {m[j].id : j \in 1 .. Len(m)}
MapGet(m, id) == m[CHOOSE j \in 1 .. Len(m) : m[j].id = id].ws
MapSet(m, id, ws) ==
    IF id \in MapKeys(m)
    THEN [j \in 1 .. Len(m) |-> IF m[j].id = id THEN [id |-> id, ws |-> ws] ELSE m[j]]
    ELSE Append(m, [id |-> id, ws |-> ws])
\* variant: the close handler leaves the entry in the Map
MapDeleteKept(m, id) == m
MapDelete(m, id) == SelectSeq(m, LAMBDA e : e.id # id)

(***************************************************************************)
(* Inbound messages.  A message is text that JSON.parse rejects, or text   *)
(* that parses to a value.                                                 *)
(***************************************************************************)
Garbage == [kind |-> "text"]
Json(v) == [kind |-> "json", v |-> v]

\* an object property that is left out when its value is undefined
Field(k, v) == IF v = Undefined THEN <<>> ELSE k :> v

GoodDetection ==
    Obj("label" :> Str("person") @@ "score" :> Num(1) @@ "xmin" :> Num(0)
        @@ "ymin" :> Num(0) @@ "xmax" :> Num(1) @@ "ymax" :> Num(1))
\* a score above 1
BadScoreDetection ==
    Obj("label" :> Str("person") @@ "score" :> Num(2) @@ "xmin" :> Num(0)
        @@ "ymin" :> Num(0) @@ "xmax" :> Num(1) @@ "ymax" :> Num(1))

\* the fields of a detection payload a client of the relay sends
DetectionFields(fid, rts, dets) ==
    Field("frame_id", fid) @@ Field("recv_ts", rts) @@ "capture_ts" :> Num(990)
        @@ "inference_ts" :> Num(995) @@ "detections" :> Arr(dets)

RelayPayloads ==
    {Obj(DetectionFields(fid, Num(5), dets)) :
        fid \in {Undefined, Num(7)}, dets \in {<<>>, <<GoodDetection, BadScoreDetection>>}}
    \cup {Obj(DetectionFields(Num(7), Undefined, <<GoodDetection>>))}

\* the `from` a sender may put in its own envelope
FromVals == {Undefined, IdStr(1)}

Envelopes ==
    {Obj("type" :> Str("chat") @@ Field("from", fr) @@ "payload" :> Obj("text" :> Str("hi"))) :
        fr \in FromVals}
    \cup {Obj("type" :> Str("signal") @@ "sdp" :> Str("v=0"))}
    \cup {Obj("type" :> Str("detection") @@ "payload" :> p) : p \in RelayPayloads}
    \cup {Obj("type" :> Str("detection") @@ "from" :> IdStr(1) @@ "payload" :> Str("frame"))}
    \cup {Obj("type" :> Str("detection") @@ "from" :> IdStr(1)
              @@ DetectionFields(Num(7), Undefined, dets)) :
            dets \in {<<GoodDetection>>, <<BadScoreDetection>>}}

Messages == {Garbage, Json(Null), Json(Num(5))} \cup {Json(e) : e \in Envelopes}

(***************************************************************************)
(* ws.on('message') (signaling.js 84-137)                                  *)
(***************************************************************************)
\* a call peer.send(JSON.stringify(data)) on socket `to`; threw: the call threw
Send(to, data, threw) == [to |-> to, data |-> data, threw |-> threw]

\* JSON.stringify leaves out the properties whose value is undefined
Stringify(v) ==
    IF v.t = "object"
    THEN Obj([k \in {x \in DOMAIN v.o : v.o[x] # Undefined} |-> v.o[k]])
    ELSE v

\* data.type === 'detection'
IsDetection(data) == Get(data, "type") = Str("detection")

\* data.payload !== undefined ? data.payload : data
PayloadOf(data) == IF Get(data, "payload") # Undefined THEN Get(data, "payload") ELSE data

\* the detection branch returns before the broadcast
Rejected(data) == IsDetection(data) /\ ~validateDetectionPayload(PayloadOf(data)).ok

\* variant: Object.assign({ recv_ts: Date.now() }, forwarded.payload)
StampKeepSender(payload, now) ==
    Obj([k \in DOMAIN payload.o \cup {"recv_ts"} |->
            IF k \in DOMAIN payload.o THEN payload.o[k] ELSE Num(now)])

\* Object.assign({}, forwarded.payload, { recv_ts: Date.now() })
Stamp(payload, now) ==
    Obj([k \in DOMAIN payload.o \cup {"recv_ts"} |->
            IF k = "recv_ts" THEN Num(now) ELSE payload.o[k]])

\* variant: from: data.from || peerId
ForwardedTrustFrom(data, from, now) ==
    Obj("type" :> Get(data, "type")
        @@ "from" :> (IF Get(data, "from") # Undefined THEN Get(data, "from") ELSE IdStr(from))
        @@ "payload" :>
            (IF IsDetection(data) /\ Truthy(PayloadOf(data)) /\ TypeOf(PayloadOf(data)) = "object"
             THEN Stamp(PayloadOf(data), now)
             ELSE PayloadOf(data)))

\* const forwarded = { type, from: peerId, payload }, stamped when a detection;
\* now is what Date.now() reads for this recipient
Forwarded(data, from, now) ==
    Obj("type" :> Get(data, "type")
        @@ "from" :> IdStr(from)
        @@ "payload" :>
            (IF IsDetection(data) /\ Truthy(PayloadOf(data)) /\ TypeOf(PayloadOf(data)) = "object"
             THEN Stamp(PayloadOf(data), now)
             ELSE PayloadOf(data)))

\* id !== peerId && peer.readyState === WebSocket.OPEN
IsRecipient(e, c) == e.id # peerId[c] /\ readyState[e.ws] = "OPEN"

\* variant: the try/catch is around the loop, so the first throw ends it
RECURSIVE BroadcastAbort(_, _, _, _, _)
BroadcastAbort(entries, c, data, failing, now) ==
    IF entries = <<>> THEN <<>>
    ELSE IF ~IsRecipient(Head(entries), c)
    THEN BroadcastAbort(Tail(entries), c, data, failing, Tail(now))
    ELSE IF Head(entries).ws \in failing
    THEN <<Send(Head(entries).ws, Stringify(Forwarded(data, peerId[c], Head(now))), TRUE)>>
    ELSE <<Send(Head(entries).ws, Stringify(Forwarded(data, peerId[c], Head(now))), FALSE)>>
             \o BroadcastAbort(Tail(entries), c, data, failing, Tail(now))

\* peers.forEach((peer, id) => { if (...) { try { ... peer.send(...) } catch (e) { log } } })
\* now: what Date.now() reads at each entry of the registry, in the order of the loop
RECURSIVE Broadcast(_, _, _, _, _)
Broadcast(entries, c, data, failing, now) ==
    IF entries = <<>> THEN <<>>
    ELSE IF ~IsRecipient(Head(entries), c)
    THEN Broadcast(Tail(entries), c, data, failing, Tail(now))
    ELSE <<Send(Head(entries).ws, Stringify(Forwarded(data, peerId[c], Head(now))),
                Head(entries).ws \in failing)>>
             \o Broadcast(Tail(entries), c, data, failing, Tail(now))

\* ws.send(JSON.stringify({ type: 'error', code: 'invalid_detection', reason: v.reason }))
ErrorReply(c, reason, failing) ==
    <<Send(c, Obj("type" :> Str("error") @@ "code" :> Str("invalid_detection")
                  @@ "reason" :> reason), c \in failing)>>

\* variant: the catch answers the sender with an error envelope
OnParseErrorReply(c, failing) == ErrorReply(c, Reason("invalid JSON"), failing)

\* catch (e) { console.error('Failed to handle message:', e) }
OnParseError(c, failing) == <<>>

\* variant: the detection branch does not return after the error envelope
HandleNoReturn(c, data, failing, now) ==
    IF Rejected(data)
    THEN ErrorReply(c, validateDetectionPayload(PayloadOf(data)).reason, failing)
             \o Broadcast(peers, c, data, failing, now)
    ELSE Broadcast(peers, c, data, failing, now)

\* the handler's body once JSON.parse has returned an object or a primitive
Handle(c, data, failing, now) ==
    IF Rejected(data)
    THEN ErrorReply(c, validateDetectionPayload(PayloadOf(data)).reason, failing)
    ELSE Broadcast(peers, c, data, failing, now)

\* JSON.parse throws on the text; data.type throws on null
Throws(msg) == msg.kind = "text" \/ msg.v = Null

\* the clock does not go back
Readings == {r \in [1 .. Len(peers) -> Times] : \A j \in 1 .. Len(peers) - 1 : r[j] <= r[j + 1]}
NoReadings == [j \in 1 .. Len(peers) |-> 0]

\* the sockets a run of the handler calls send on
Targets(c, msg) ==
    IF Throws(msg) THEN {}
    ELSE LET sends == Handle(c, msg.v, {}, NoReadings)
         IN  {sends[j].to : j \in 1 .. Len(sends)}

\* what Date.now() may return to a run, which reads it only for a detection it relays
Clock(msg) ==
    IF ~Throws(msg) /\ IsDetection(msg.v) /\ ~Rejected(msg.v) THEN Readings ELSE {NoReadings}

\* variant: the broadcast loop runs twice for a message
MessageTwice(c, msg, failing, now) ==
    /\ last = Idle
    /\ c \in clients
    /\ readyState[c] = "OPEN"
    /\ last' = [op |-> "message", ws |-> c, msg |-> msg, now |-> now]
    /\ sent' = IF Throws(msg) THEN <<>>
               ELSE IF IsDetection(msg.v) /\ ~validateDetectionPayload(PayloadOf(msg.v)).ok
               THEN <<[to |-> c,
                       data |-> Obj("type" :> Str("error") @@ "code" :> Str("invalid_detection")
                                    @@ "reason" :> validateDetectionPayload(PayloadOf(msg.v)).reason),
                       threw |-> c \in failing]>>
               ELSE LET once == [j \in 1 .. Len(SelectSeq(peers, LAMBDA e :
                                        e.id # peerId[c] /\ readyState[e.ws] = "OPEN")) |->
                                   [to |-> SelectSeq(peers, LAMBDA e :
                                               e.id # peerId[c] /\ readyState[e.ws] = "OPEN")[j].ws,
                                    data |-> Obj("type" :> Get(msg.v, "type")
                                                 @@ "from" :> Str(ToString(peerId[c]))
                                                 @@ "payload" :> Get(msg.v, "payload")),
                                    threw |-> FALSE]]
                    IN  once \o once
    /\ UNCHANGED <<peers, clients, readyState, isAlive, peerId, accepted, sinceResponse>>
    /\ UNCHANGED <<vPayload, vResult>>
    /\ UNCHANGED client
    /\ UNCHANGED capture
Message(c, msg, failing, now) ==
    /\ last = Idle
    /\ c \in clients
    /\ readyState[c] = "OPEN"
    /\ last' = [op |-> "message", ws |-> c, msg |-> msg, now |-> now]
    /\ sent' = IF Throws(msg) THEN OnParseError(c, failing) ELSE Handle(c, msg.v, failing, now)
    /\ UNCHANGED <<peers, clients, readyState, isAlive, peerId, accepted, sinceResponse>>
    /\ UNCHANGED validatorVars
    /\ UNCHANGED client
    /\ UNCHANGED capture

(***************************************************************************)
(* wss.on('connection'), ws.on('pong'), ws.on('close'), the sweep          *)
(***************************************************************************)
\* the identities handed out so far
UsedIds == {peerId[c] : c \in 1 .. accepted}

\* a new connection draws an identity handed out before, or a fresh one
\* (the least unused one stands for every fresh identity)
DrawIds == {id \in Ids : id \in UsedIds \/ \A k \in 1 .. id - 1 : k \in UsedIds}

\* variant: the connection handler registers the socket and sends nothing
ConnectionSilent(id, threw) ==
    /\ last = Idle
    /\ accepted < MaxConns
    /\ id \in {i \in 1 .. MaxConns :
                  i \in {peerId[c] : c \in 1 .. accepted}
                  \/ \A k \in 1 .. i - 1 : k \in {peerId[c] : c \in 1 .. accepted}}
    /\ accepted' = accepted + 1
    /\ peers' = IF \E j \in 1 .. Len(peers) : peers[j].id = id
                THEN [j \in 1 .. Len(peers) |->
                         IF peers[j].id = id THEN [id |-> id, ws |-> accepted + 1] ELSE peers[j]]
                ELSE Append(peers, [id |-> id, ws |-> accepted + 1])
    /\ clients' = clients \cup {accepted + 1}
    /\ readyState' = [readyState EXCEPT ![accepted + 1] = "OPEN"]
    /\ isAlive' = [isAlive EXCEPT ![accepted + 1] = TRUE]
    /\ peerId' = [peerId EXCEPT ![accepted + 1] = id]
    /\ sinceResponse' = [sinceResponse EXCEPT ![accepted + 1] = 0]
    /\ last' = [op |-> "connection", ws |-> accepted + 1]
    /\ sent' = <<>>
    /\ UNCHANGED <<vPayload, vResult>>
    /\ UNCHANGED client
    /\ UNCHANGED capture
Connection(id, threw) ==
    /\ last = Idle
    /\ accepted < MaxConns
    /\ id \in DrawIds
    /\ accepted' = accepted + 1
    /\ peers' = MapSet(peers, id, accepted + 1)
    /\ clients' = clients \cup {accepted + 1}
    /\ readyState' = [readyState EXCEPT ![accepted + 1] = "OPEN"]
    /\ isAlive' = [isAlive EXCEPT ![accepted + 1] = TRUE]
    /\ peerId' = [peerId EXCEPT ![accepted + 1] = id]
    /\ sinceResponse' = [sinceResponse EXCEPT ![accepted + 1] = 0]
    /\ last' = [op |-> "connection", ws |-> accepted + 1]
    /\ sent' = <<Send(accepted + 1, Obj("type" :> Str("id") @@ "id" :> IdStr(id)), threw)>>
    /\ UNCHANGED validatorVars
    /\ UNCHANGED client
    /\ UNCHANGED capture

\* variant: the pong handler leaves isAlive as it is
OnPongIgnored(c) == isAlive

\* ws.on('pong', () => { ws.isAlive = true })
OnPong(c) == [isAlive EXCEPT ![c] = TRUE]

Pong(c) ==
    /\ last = Idle
    /\ c \in clients
    /\ readyState[c] = "OPEN"
    /\ isAlive' = OnPong(c)
    /\ sinceResponse' = [sinceResponse EXCEPT ![c] = 0]
    /\ last' = [op |-> "pong", ws |-> c]
    /\ sent' = <<>>
    /\ UNCHANGED <<peers, clients, readyState, peerId, accepted>>
    /\ UNCHANGED validatorVars
    /\ UNCHANGED client
    /\ UNCHANGED capture

\* if (ws.isAlive === false) return ws.terminate()
Stale(c) == isAlive[c] = FALSE

\* setInterval(() => wss.clients.forEach(...), 30000): terminate() leaves the
\* socket CLOSING until its close event; the others are marked and pinged
Sweep ==
    /\ last = Idle
    /\ readyState' = [c \in Conns |->
                        IF c \in clients /\ Stale(c) /\ readyState[c] = "OPEN"
                        THEN "CLOSING" ELSE readyState[c]]
    /\ isAlive' = [c \in Conns |-> IF c \in clients /\ ~Stale(c) THEN FALSE ELSE isAlive[c]]
    /\ sinceResponse' = [c \in Conns |->
                           IF c \in clients /\ sinceResponse[c] < 2
                           THEN sinceResponse[c] + 1 ELSE sinceResponse[c]]
    /\ last' = [op |-> "sweep",
                terminated |-> {c \in clients : Stale(c)},
                pinged |-> {c \in clients : ~Stale(c)}]
    /\ sent' = <<>>
    /\ UNCHANGED <<peers, clients, peerId, accepted>>
    /\ UNCHANGED validatorVars
    /\ UNCHANGED client
    /\ UNCHANGED capture

\* the close event: ws leaves wss.clients, then peers.delete(peerId).  No
\* handler of the socket runs after it and nothing refers to the socket
\* object any more: its isAlive is put back to the value of Init.
Close(c) ==
    /\ last = Idle
    /\ c \in clients
    /\ clients' = clients \ {c}
    /\ readyState' = [readyState EXCEPT ![c] = "CLOSED"]
    /\ peers' = MapDelete(peers, peerId[c])
    /\ isAlive' = [isAlive EXCEPT ![c] = FALSE]
    /\ sinceResponse' = [sinceResponse EXCEPT ![c] = 0]
    /\ last' = [op |-> "close", ws |-> c, id |-> peerId[c]]
    /\ sent' = <<>>
    /\ UNCHANGED <<peerId, accepted>>
    /\ UNCHANGED validatorVars
    /\ UNCHANGED client
    /\ UNCHANGED capture

\* The handler has returned to the event loop.  last and sent record one run
\* of one handler, so that what a handler did can be read off the state; no
\* handler reads them.
Return ==
    /\ last # Idle
    /\ last' = Idle
    /\ sent' = <<>>
    /\ UNCHANGED <<peers, clients, readyState, isAlive, peerId, accepted, sinceResponse>>
    /\ UNCHANGED validatorVars
    /\ UNCHANGED client
    /\ UNCHANGED capture

(***************************************************************************)
(* The client handler's state (WebRTCHandler.jsx 4-19).  client holds the  *)
(* fields of the handler object, the browser objects the handler created   *)
(* (its WebSockets, its timers, its Peer objects) and, in out, the calls   *)
(* the handler has made in the task that is running.                       *)
(***************************************************************************)
\* this.maxReconnectAttempts = 5, this.reconnectDelay = 2000
maxReconnectAttempts == 5
reconnectDelay == 2000

\* WebSockets the handler constructs in a run, at most
MaxSockets == 3
Sockets == 1 .. MaxSockets

\* Peer constructions in a run, at most
MaxPeers == 2
PeerObjs == 1 .. MaxPeers

(***************************************************************************)
(* The capture component in server mode (part_004: lines 1-636 are the     *)
(* version that sends frames over the live WebSocket, lines 637-1104 the   *)
(* version that posts them to the inference server).  capture holds the    *)
(* state of one mounted component and, in out, the calls of the task that  *)
(* is running.                                                             *)
(***************************************************************************)
\* frames awaited at once, and pending timeouts of the posting loop, at most
MaxFrames == 2
MaxTimers == 3

\* the component before it is mounted
NewCapture ==
    [mode |-> "none", videoReady |-> FALSE, liveWs |-> "NONE", interval |-> FALSE,
     stopped |-> FALSE, inflight |-> FALSE, timers |-> 0, outstanding |-> 0, out |-> <<>>]

\* the handler as its constructor leaves it; stream: a capture stream was
\* given; webrtc: the browser has WebRTC.  ws and peer are 0 for null, else
\* the number of the object.
NewHandler(stream, webrtc) ==
    [peer |-> 0, stream |-> stream, ws |-> 0, wsUrl |-> Null, isInitiator |-> FALSE,
     clientId |-> Null, connected |-> FALSE, reconnectAttempts |-> 0,
     pingInterval |-> FALSE, pendingSignal |-> Undefined,
     \* the browser: readyState of each WebSocket, running intervals, the delays
     \* of the pending establishConnection timeouts, each Peer, pending
     \* createPeer timeouts
     webrtc |-> webrtc,
     wsState |-> [k \in Sockets |-> "NONE"],
     intervals |-> 0,
     timers |-> <<>>,
     peerObjs |-> [p \in PeerObjs |-> [state |-> "NONE", initiator |-> FALSE]],
     peerTimers |-> 0,
     \* the calls of the running task; the sockets a role envelope went to;
     \* disconnect() was the last call of the application
     out |-> <<>>,
     roleSent |-> {},
     disconnected |-> FALSE]

Init ==
    /\ peers = <<>>
    /\ clients = {}
    /\ readyState = [c \in Conns |-> "CLOSED"]
    /\ isAlive = [c \in Conns |-> FALSE]
    /\ peerId = [c \in Conns |-> 0]
    /\ accepted = 0
    /\ sinceResponse = [c \in Conns |-> 0]
    /\ last = Idle
    /\ sent = <<>>
    /\ vPayload = None
    /\ vResult = None
    /\ client = NewHandler(FALSE, TRUE)
    /\ capture = NewCapture

\* a message event on an open socket, with what the environment decides in
\* the run: which send calls throw and what the clock reads
Receive ==
    /\ last = Idle
    /\ \E c \in clients, msg \in Messages :
          \E failing \in SUBSET Targets(c, msg), now \in Clock(msg) :
             Message(c, msg, failing, now)

Next ==
    \/ \E id \in Ids, threw \in BOOLEAN : Connection(id, threw)
    \/ Receive
    \/ \E c \in Conns : Pong(c)
    \/ Sweep
    \/ \E c \in Conns : Close(c)
    \/ Return

Spec == Init /\ [][Next]_vars

(***************************************************************************)
(* validateDetectionPayload on its own: the payload is drawn from a        *)
(* bounded set of JSON values and the function is applied to it.           *)
(***************************************************************************)
\* detections in the array of a payload, at most
MaxDets == 2

LabelVals == {Str("person"), Str(""), Num(5)}
ScoreVals == {Num(-1), Num(1), Num(2), Undefined}
CoordVals == {Num(-1), Num(0), Num(1), Num(2), Undefined}

Detection(label, score, xmin, ymin, xmax, ymax) ==
    Obj(Field("label", label) @@ Field("score", score) @@ Field("xmin", xmin)
        @@ Field("ymin", ymin) @@ Field("xmax", xmax) @@ Field("ymax", ymax))

\* the values in a detections array that are no objects
NonObjects == {Null, Num(5)}

\* a box of no area: xmin = xmax
ZeroAreaDetection ==
    Detection(Str("person"), Num(1), Num(1), Num(0), Num(1), Num(1))

\* the elements around the one that is drawn freely
ContextDetections == {GoodDetection, ZeroAreaDetection}

\* the array of length n with d at position p and the context elements ctx elsewhere
ArrayAt(n, p, d, ctx) == [j \in 1 .. n |-> IF j = p THEN d ELSE ctx[j]]

\* payloads that differ in the fields read before the detections
TopLevelInputs ==
    {Undefined, Null, Num(0), Str("frame"), Arr(<<>>)}
    \cup {Obj(Field("frame_id", fid) @@ Field("capture_ts", cts) @@ Field("inference_ts", its)
              @@ Field("detections", dets)) :
            fid \in {Undefined, Null, Num(7), Str("f7")},
            cts \in {Undefined, Num(990), Str("990")},
            its \in {Undefined, Num(995), Str("995")},
            dets \in {Undefined, Str("none"), Obj(<<>>), Arr(<<>>), Arr(<<GoodDetection>>),
                      Arr(<<BadScoreDetection>>)}}

\* a payload that passes every check made before the detections are read,
\* but for its frame_id
DetectionInput(fid, dets) ==
    Obj(Field("frame_id", fid) @@ "capture_ts" :> Num(990) @@ "inference_ts" :> Num(995)
        @@ "detections" :> Arr(dets))

FrameIds == {Undefined, Num(7)}

ValidatorInit ==
    /\ peers = <<>>
    /\ clients = {}
    /\ readyState = [c \in Conns |-> "CLOSED"]
    /\ isAlive = [c \in Conns |-> FALSE]
    /\ peerId = [c \in Conns |-> 0]
    /\ accepted = 0
    /\ sinceResponse = [c \in Conns |-> 0]
    /\ last = Idle
    /\ sent = <<>>
    /\ \/ vPayload \in TopLevelInputs
       \/ \E fid \in FrameIds, n \in 1 .. MaxDets :
             \E p \in 1 .. n, ctx \in [1 .. n -> ContextDetections] :
                \/ \E d \in NonObjects : vPayload = DetectionInput(fid, ArrayAt(n, p, d, ctx))
                \/ \E l \in LabelVals, s \in ScoreVals :
                      \E x0 \in CoordVals, y0 \in CoordVals, x1 \in CoordVals, y1 \in CoordVals :
                         vPayload = DetectionInput(fid,
                                       ArrayAt(n, p, Detection(l, s, x0, y0, x1, y1), ctx))
    /\ vResult = None
    /\ client = NewHandler(FALSE, TRUE)
    /\ capture = NewCapture

\* const v = validateDetectionPayload(payload)
Validate ==
    /\ vResult = None
    /\ vResult' = validateDetectionPayload(vPayload)
    /\ UNCHANGED vPayload
    /\ UNCHANGED relayVars
    /\ UNCHANGED client
    /\ UNCHANGED capture

ValidatorNext == Validate

SpecValidate == ValidatorInit /\ [][ValidatorNext]_vars

(***************************************************************************)
(* The client handler's methods (WebRTCHandler.jsx 21-378), each a         *)
(* function from the state before the call to the state after it.          *)
(***************************************************************************)
\* a call of the running task on a browser object or on a callback
Call(h, c) == [h EXCEPT !.out = Append(@, c)]

\* the addresses the application passes to connect
GoodUrl == Str("ws://relay:8080")
BadUrl == Str("relay:8080")
Urls == {GoodUrl, BadUrl}

\* new WebSocket(url) throws a SyntaxError when url is no ws: or wss: address
ConstructorThrows(url) == url # GoodUrl

\* the WebSockets constructed so far; the next one gets the next number
Created(h) == Cardinality({k \in Sockets : h.wsState[k] # "NONE"})

\* socket.close(): an open or connecting socket starts closing
CloseCall(state) == IF state \in {"CONNECTING", "OPEN"} THEN "CLOSING" ELSE state

\* peer.destroy(): a live Peer is destroyed and will emit 'close'
DestroyCall(state) == IF state = "LIVE" THEN "DESTROYED" ELSE state

\* sendToServer(data): ws.send does not throw on an open socket
sendToServer(h, data) ==
    IF h.ws # 0 /\ h.wsState[h.ws] = "OPEN"
    THEN Call(h, [call |-> "send", to |-> h.ws, data |-> Stringify(data)])
    ELSE h

\* _stopPing()
stopPing(h) ==
    IF h.pingInterval
    THEN [h EXCEPT !.intervals = @ - 1, !.pingInterval = FALSE]
    ELSE h

\* _startPing()
startPing(h) == [stopPing(h) EXCEPT !.intervals = @ + 1, !.pingInterval = TRUE]

\* the callback of the interval of _startPing
pingTick(h) ==
    IF h.ws # 0 /\ h.wsState[h.ws] = "OPEN"
    THEN sendToServer(h, Obj("type" :> Str("ping")))
    ELSE h

\* this.reconnectDelay * Math.pow(2, this.reconnectAttempts - 1)
Backoff(attempt) == reconnectDelay * 2 ^ (attempt - 1)

\* variant: without the guard on this.connected
handleDisconnectUnguarded(h) ==
    LET g == stopPing([h EXCEPT !.connected = FALSE, !.reconnectAttempts = @ + 1])
    IN  IF g.reconnectAttempts < maxReconnectAttempts
        THEN [g EXCEPT !.timers = Append(@, Backoff(g.reconnectAttempts))]
        ELSE g

handleDisconnect(h) ==
    IF ~h.connected THEN h
    ELSE LET g == stopPing([h EXCEPT !.connected = FALSE, !.reconnectAttempts = @ + 1])
         IN  IF g.reconnectAttempts < maxReconnectAttempts
             THEN [g EXCEPT !.timers = Append(@, Backoff(g.reconnectAttempts))]
             ELSE g

\* establishConnection() gets past its guard and the constructor
Opens(h) ==
    /\ ~h.connected
    /\ h.reconnectAttempts < maxReconnectAttempts
    /\ ~ConstructorThrows(h.wsUrl)

establishConnection(h) ==
    IF h.connected \/ h.reconnectAttempts >= maxReconnectAttempts THEN h
    ELSE IF ConstructorThrows(h.wsUrl) THEN handleDisconnect(h)
    ELSE [h EXCEPT !.ws = Created(h) + 1, !.wsState[Created(h) + 1] = "CONNECTING"]

connect(h, url) ==
    LET g == [h EXCEPT !.wsUrl = url]
    IN  IF g.ws # 0
        THEN establishConnection(
                 [Call(g, [call |-> "close", to |-> g.ws])
                     EXCEPT !.wsState[g.ws] = CloseCall(@), !.ws = 0])
        ELSE establishConnection(g)

\* { type: 'role', payload: { role: ... } }
RoleEnvelope(initiator) ==
    Obj("type" :> Str("role")
        @@ "payload" :> Obj("role" :> Str(IF initiator THEN "initiator" ELSE "receiver")))

\* this.ws.onopen
onopen(h) ==
    LET g == startPing([h EXCEPT !.connected = TRUE, !.reconnectAttempts = 0])
    IN  sendToServer([g EXCEPT !.isInitiator = g.stream], RoleEnvelope(g.stream))

\* this.ws.onerror, this.ws.onclose
onerror(h) == handleDisconnect(h)
onclose(h) == handleDisconnect(h)

resetPeer(h) ==
    IF h.peer # 0
    THEN [Call(h, [call |-> "destroy", peer |-> h.peer])
             EXCEPT !.peerObjs[h.peer].state = DestroyCall(@), !.peer = 0,
                    !.peerTimers = @ + 1]
    ELSE [h EXCEPT !.peerTimers = @ + 1]

\* the Peer objects constructed so far, those whose constructor threw included
Constructed(h) == Cardinality({p \in PeerObjs : h.peerObjs[p].state # "NONE"})

\* variant: the pending signal is applied and kept
createPeerKeepPending(h) ==
    IF h.peer # 0 THEN h
    ELSE IF ~h.webrtc
    THEN resetPeer([h EXCEPT !.peerObjs[Constructed(h) + 1].state = "THREW"])
    ELSE LET g == [h EXCEPT !.peer = Constructed(h) + 1,
                            !.peerObjs[Constructed(h) + 1] =
                                [state |-> "LIVE", initiator |-> h.isInitiator]]
         IN  IF Truthy(g.pendingSignal)
             THEN Call(g, [call |-> "signal", peer |-> g.peer, data |-> g.pendingSignal])
             ELSE g

\* createPeer(); new Peer(peerOptions) throws where the browser has no WebRTC
createPeer(h) ==
    IF h.peer # 0 THEN h
    ELSE IF ~h.webrtc
    THEN resetPeer([h EXCEPT !.peerObjs[Constructed(h) + 1].state = "THREW"])
    ELSE LET g == [h EXCEPT !.peer = Constructed(h) + 1,
                            !.peerObjs[Constructed(h) + 1] =
                                [state |-> "LIVE", initiator |-> h.isInitiator]]
         IN  IF Truthy(g.pendingSignal)
             THEN [Call(g, [call |-> "signal", peer |-> g.peer, data |-> g.pendingSignal])
                      EXCEPT !.pendingSignal = Null]
             ELSE g

\* a && b, a || b
Both(a, b) == IF Truthy(a) THEN b ELSE a
Either(a, b) == IF Truthy(a) THEN a ELSE b

\* for (let i = 0; i < 3; i++) if (incoming && typeof incoming === 'object'
\*     && incoming.payload !== undefined) incoming = incoming.payload
RECURSIVE Unwrap(_, _)
Unwrap(incoming, n) ==
    IF n = 0 THEN incoming
    ELSE IF Truthy(incoming) /\ TypeOf(incoming) = "object"
            /\ Get(incoming, "payload") # Undefined
    THEN Unwrap(Get(incoming, "payload"), n - 1)
    ELSE incoming

\* const isValidSignal = ...
IsValidSignal(incoming) ==
    /\ Truthy(incoming)
    /\ TypeOf(incoming) = "object"
    /\ \E key \in {"sdp", "type", "candidate", "renegotiate"} : Get(incoming, key) # Undefined

\* case 'signal'; peer.signal does not throw on a Peer that is not destroyed
handleSignal(h, message) ==
    IF Get(message, "from") = h.clientId THEN h
    ELSE LET incoming ==
                 Unwrap(IF Get(message, "payload") # Undefined
                        THEN Get(message, "payload") ELSE Get(message, "data"), 3)
         IN  IF ~Truthy(incoming) THEN h
             ELSE IF h.peer = 0 THEN [h EXCEPT !.pendingSignal = incoming]
             ELSE IF IsValidSignal(incoming)
             THEN Call(h, [call |-> "signal", peer |-> h.peer, data |-> incoming])
             ELSE h

\* case 'chat': (message.payload && message.payload.text)
\*     || (message.data && message.data.text) || null
ChatText(message) ==
    Either(Either(Both(Get(message, "payload"), Get(Get(message, "payload"), "text")),
                  Both(Get(message, "data"), Get(Get(message, "data"), "text"))),
           Null)

handleMessage(h, message) ==
    CASE Get(message, "type") = Str("id") ->
             createPeer([h EXCEPT !.clientId = Get(message, "id")])
      [] Get(message, "type") = Str("signal") -> handleSignal(h, message)
      [] Get(message, "type") = Str("chat") ->
             IF Truthy(ChatText(message))
             THEN Call(h, [call |-> "onMessage", arg |-> ChatText(message)])
             ELSE h
      [] Get(message, "type") = Str("detection") ->
             Call(h, [call |-> "onDetection",
                      arg |-> Either(Either(Get(message, "payload"), Get(message, "data")),
                                     message)])
      [] OTHER -> h

\* this.ws.onmessage: JSON.parse throws on the text and message.type throws
\* on null; the catch logs
onmessage(h, msg) ==
    IF msg.kind = "text" \/ msg.v = Null THEN h ELSE handleMessage(h, msg.v)

\* peer.on('signal', data => this.sendToServer({ type: 'signal', payload: data }))
onsignal(h, data) == sendToServer(h, Obj("type" :> Str("signal") @@ "payload" :> data))

\* variant: the socket is closed but this.ws is kept
disconnectKeepSocket(h) ==
    LET a == [h EXCEPT !.connected = FALSE, !.reconnectAttempts = maxReconnectAttempts]
        b == IF a.peer # 0
             THEN [Call(a, [call |-> "destroy", peer |-> a.peer])
                      EXCEPT !.peerObjs[a.peer].state = DestroyCall(@), !.peer = 0]
             ELSE a
    IN  IF b.ws # 0
        THEN [Call(b, [call |-> "close", to |-> b.ws]) EXCEPT !.wsState[b.ws] = CloseCall(@)]
        ELSE b

disconnect(h) ==
    LET a == [h EXCEPT !.connected = FALSE, !.reconnectAttempts = maxReconnectAttempts]
        b == IF a.peer # 0
             THEN [Call(a, [call |-> "destroy", peer |-> a.peer])
                      EXCEPT !.peerObjs[a.peer].state = DestroyCall(@), !.peer = 0]
             ELSE a
    IN  IF b.ws # 0
        THEN [Call(b, [call |-> "close", to |-> b.ws])
                 EXCEPT !.wsState[b.ws] = CloseCall(@), !.ws = 0]
        ELSE b

(***************************************************************************)
(* The client's tasks.  A task is one call of the application or one       *)
(* callback of the browser; it runs to completion.                         *)
(***************************************************************************)
\* a Peer that was destroyed in the task emits 'close' before the next task,
\* and peer.on('close') runs resetPeer
RECURSIVE Microtasks(_)
Microtasks(h) ==
    IF \A p \in PeerObjs : h.peerObjs[p].state # "DESTROYED" THEN h
    ELSE LET p == CHOOSE q \in PeerObjs : h.peerObjs[q].state = "DESTROYED"
         IN  Microtasks(resetPeer([h EXCEPT !.peerObjs[p].state = "CLOSED"]))

\* the sockets the calls sent a role envelope to
RoleSentTo(calls) ==
    {calls[j].to : j \in {i \in 1 .. Len(calls) :
                            calls[i].call = "send" /\ Get(calls[i].data, "type") = Str("role")}}

\* the task op has run and left the handler as h
Ran(op, h) ==
    /\ client' = [Microtasks(h) EXCEPT !.roleSent = @ \cup RoleSentTo(h.out)]
    /\ last' = op
    /\ UNCHANGED registryVars
    /\ UNCHANGED sent
    /\ UNCHANGED validatorVars
    /\ UNCHANGED capture

\* the envelopes the relay sends to a client: its identity, and what other
\* peers sent, under payload and with from
Offer == Obj("type" :> Str("offer") @@ "sdp" :> Str("v=0"))
IdEnvelope == Obj("type" :> Str("id") @@ "id" :> IdStr(1))
ClientMessages ==
    {Garbage, Json(IdEnvelope),
     Json(Obj("type" :> Str("chat") @@ "from" :> IdStr(2) @@ "payload" :> Obj("text" :> Str("hi"))))}

\* the task constructs a Peer
ConstructsOn(h, msg) ==
    /\ msg.kind = "json"
    /\ msg.v # Null
    /\ Get(msg.v, "type") = Str("id")
    /\ h.peer = 0

\* the application calls connect(url)
Connect(url) ==
    /\ last = Idle
    /\ Opens([client EXCEPT !.wsUrl = url]) => Created(client) < MaxSockets
    /\ Ran([op |-> "connect", url |-> url],
           [connect(client, url) EXCEPT !.disconnected = FALSE])

\* the application calls disconnect(), from a task of its own or once more
\* in the task that called it
Disconnect ==
    /\ last = Idle \/ last.op = "disconnect"
    /\ Ran([op |-> "disconnect", again |-> client.disconnected],
           [disconnect([client EXCEPT !.out = <<>>]) EXCEPT !.disconnected = TRUE])

\* the open event of socket k
Open(k) ==
    /\ last = Idle
    /\ client.wsState[k] = "CONNECTING"
    /\ Ran([op |-> "onopen", ws |-> k], onopen([client EXCEPT !.wsState[k] = "OPEN"]))

\* the connection of socket k fails: the socket is closed, the error event
\* is fired and the close event follows it in the same task
SocketError(k) ==
    /\ last = Idle
    /\ client.wsState[k] \in {"CONNECTING", "OPEN", "CLOSING"}
    /\ Ran([op |-> "onerror", ws |-> k, lost |-> client.connected],
           onerror([client EXCEPT !.wsState[k] = "CLOSED", !.roleSent = @ \ {k}]))

\* the close event of socket k: after its error event, or on its own when
\* the closing handshake ended
SocketClose(k) ==
    /\ \/ last = Idle /\ client.wsState[k] \in {"OPEN", "CLOSING"}
       \/ last.op = "onerror" /\ last.ws = k
    /\ Ran([op |-> "onclose", ws |-> k, afterError |-> last # Idle,
            lost |-> IF last = Idle THEN client.connected ELSE last.lost],
           onclose([client EXCEPT !.wsState[k] = "CLOSED", !.roleSent = @ \ {k},
                                  !.out = <<>>]))

\* a message event of socket k
OnMessage(k, msg) ==
    /\ last = Idle
    /\ client.wsState[k] = "OPEN"
    /\ ConstructsOn(client, msg) => Constructed(client) < MaxPeers
    /\ Ran([op |-> "onmessage", ws |-> k, msg |-> msg], onmessage(client, msg))

\* the j-th pending timeout of handleDisconnect fires
ReconnectTimer(j) ==
    /\ last = Idle
    /\ j \in 1 .. Len(client.timers)
    /\ Opens(client) => Created(client) < MaxSockets
    /\ Ran([op |-> "timer", delay |-> client.timers[j]],
           establishConnection(
               [client EXCEPT !.timers = SubSeq(@, 1, j - 1) \o SubSeq(@, j + 1, Len(@))]))

\* the keepalive interval fires
PingTick ==
    /\ last = Idle
    /\ client.intervals > 0
    /\ Ran([op |-> "ping"], pingTick(client))

\* a timeout of resetPeer fires
PeerTimer ==
    /\ last = Idle
    /\ client.peerTimers > 0
    /\ client.peer = 0 => Constructed(client) < MaxPeers
    /\ Ran([op |-> "createPeer"], createPeer([client EXCEPT !.peerTimers = @ - 1]))

\* a live Peer closes on its own (the remote side went away) and emits 'close'
PeerClosed(p) ==
    /\ last = Idle
    /\ client.peerObjs[p].state = "LIVE"
    /\ Ran([op |-> "peerclose", peer |-> p],
           resetPeer([client EXCEPT !.peerObjs[p].state = "CLOSED"]))

\* a live Peer emits 'signal'
PeerSignal(p) ==
    /\ last = Idle
    /\ client.peerObjs[p].state = "LIVE"
    /\ Ran([op |-> "onsignal", peer |-> p], onsignal(client, Offer))

\* The task has returned to the event loop (the close event that follows an
\* error event comes first).  last and out record one task; no task reads them.
ClientReturn ==
    /\ last # Idle
    /\ last.op # "onerror"
    /\ last' = Idle
    /\ client' = [client EXCEPT !.out = <<>>]
    /\ UNCHANGED registryVars
    /\ UNCHANGED sent
    /\ UNCHANGED validatorVars
    /\ UNCHANGED capture

ClientInit ==
    /\ peers = <<>>
    /\ clients = {}
    /\ readyState = [c \in Conns |-> "CLOSED"]
    /\ isAlive = [c \in Conns |-> FALSE]
    /\ peerId = [c \in Conns |-> 0]
    /\ accepted = 0
    /\ sinceResponse = [c \in Conns |-> 0]
    /\ last = Idle
    /\ sent = <<>>
    /\ vPayload = None
    /\ vResult = None
    /\ \E stream \in BOOLEAN, webrtc \in BOOLEAN : client = NewHandler(stream, webrtc)
    /\ capture = NewCapture

ClientNext ==
    \/ \E url \in Urls : Connect(url)
    \/ Disconnect
    \/ \E k \in Sockets : Open(k)
    \/ \E k \in Sockets : SocketError(k)
    \/ \E k \in Sockets : SocketClose(k)
    \/ \E k \in Sockets, msg \in ClientMessages : OnMessage(k, msg)
    \/ \E j \in 1 .. MaxSockets : ReconnectTimer(j)
    \/ PingTick
    \/ PeerTimer
    \/ \E p \in PeerObjs : PeerClosed(p)
    \/ \E p \in PeerObjs : PeerSignal(p)
    \/ ClientReturn

SpecClient == ClientInit /\ [][ClientNext]_vars

(***************************************************************************)
(* The handler in a session: what the application sends through it and     *)
(* what the relay delivers to it (WebRTCHandler.jsx 78-155, 199-210,       *)
(* 334-355).  The value a method returns is the last entry of out.         *)
(***************************************************************************)
\* return value;
Returns(h, value) == Call(h, [call |-> "return", value |-> value])

\* this.ws && this.ws.readyState === WebSocket.OPEN
IsOpen(h) == h.ws # 0 /\ h.wsState[h.ws] = "OPEN"

\* sendChat(text)
sendChat(h, text) ==
    IF IsOpen(h)
    THEN Returns(sendToServer(h, Obj("type" :> Str("chat")
                                     @@ "payload" :> Obj("text" :> text))), TRUE)
    ELSE Returns(h, FALSE)

\* variant: an object that fails the basic validation is not sent
sendDetectionValidated(h, detectionObj) ==
    IF "kind" \in DOMAIN detectionObj /\ detectionObj.kind = "text"
    THEN Returns(h, FALSE)
    ELSE LET msg == IF "kind" \in DOMAIN detectionObj THEN detectionObj.v ELSE detectionObj
         IN  IF \/ ~Truthy(msg)
                \/ Get(msg, "frame_id") = Undefined
                \/ Get(msg, "capture_ts") = Undefined
                \/ Get(msg, "detections").t # "array"
             THEN Returns(h, FALSE)
             ELSE IF h.ws # 0 /\ h.wsState[h.ws] = "OPEN"
             THEN Returns(Call(h, [call |-> "send", to |-> h.ws,
                                   data |-> Obj("type" :> Str("detection")
                                                @@ "payload" :> msg)]), TRUE)
             ELSE Returns(h, FALSE)

\* sendDetection(detectionObj): a string argument (a message) is parsed, and
\* JSON.parse throwing ends the call; the basic validation only warns
sendDetection(h, detectionObj) ==
    IF "kind" \in DOMAIN detectionObj /\ detectionObj.kind = "text"
    THEN Returns(h, FALSE)
    ELSE LET msg == IF "kind" \in DOMAIN detectionObj THEN detectionObj.v ELSE detectionObj
         IN  IF IsOpen(h)
             THEN Returns(sendToServer(h, Obj("type" :> Str("detection")
                                              @@ "payload" :> msg)), TRUE)
             ELSE Returns(h, FALSE)

\* the texts and the detection objects the application sends: a detection
\* the relay accepts, an object without any of the fields, the JSON text of
\* a detection, and text that is no JSON
ChatTexts == {Str("hi")}
SentDetection == Obj(DetectionFields(Str("f7"), Undefined, <<GoodDetection>>))
DetectionArgs == {SentDetection, Obj(<<>>), Json(SentDetection), Garbage}

\* what the relay delivers: the identity, and the signals of another peer,
\* forwarded under payload with from: an offer, an offer its sender had
\* wrapped in payload, and an object a peer-link cannot use
NoSignal == Obj("foo" :> Num(1))
SignalFrom(payload) ==
    Forwarded(Obj("type" :> Str("signal") @@ "payload" :> payload), 2, 0)
SessionMessages ==
    {Json(IdEnvelope), Json(SignalFrom(Offer)), Json(SignalFrom(Obj("payload" :> Offer))),
     Json(SignalFrom(NoSignal))}

\* the application calls sendChat(text)
SendChat(text) ==
    /\ last = Idle
    /\ Ran([op |-> "sendChat", arg |-> text], sendChat(client, text))

\* the application calls sendDetection(detectionObj)
SendDetection(detectionObj) ==
    /\ last = Idle
    /\ Ran([op |-> "sendDetection", arg |-> detectionObj], sendDetection(client, detectionObj))

\* the envelope the last task sent on socket k, once the relay has parsed it
SentOn(k) ==
    IF client.out # <<>> /\ client.out[1].call = "send" /\ client.out[1].to = k
    THEN client.out[1].data ELSE Null

\* the relay rejects the detection the handler has just sent on socket k and
\* its error envelope is the next message of the socket
ErrorArrives(k) ==
    /\ last # Idle
    /\ last.op = "sendDetection"
    /\ client.wsState[k] = "OPEN"
    /\ SentOn(k) # Null
    /\ Rejected(SentOn(k))
    /\ LET reply == ErrorReply(1, validateDetectionPayload(PayloadOf(SentOn(k))).reason, {})[1].data
       IN  Ran([op |-> "onmessage", ws |-> k, msg |-> Json(reply)],
               onmessage([client EXCEPT !.out = <<>>], Json(reply)))

SessionNext ==
    \/ Connect(GoodUrl)
    \/ \E k \in Sockets : Open(k)
    \/ \E k \in Sockets : SocketClose(k)
    \/ \E k \in Sockets, msg \in SessionMessages : OnMessage(k, msg)
    \/ \E j \in 1 .. MaxSockets : ReconnectTimer(j)
    \/ PeerTimer
    \/ \E p \in PeerObjs : PeerClosed(p)
    \/ \E text \in ChatTexts : SendChat(text)
    \/ \E detectionObj \in DetectionArgs : SendDetection(detectionObj)
    \/ \E k \in Sockets : ErrorArrives(k)
    \/ ClientReturn

SpecSession == ClientInit /\ [][SessionNext]_vars

(***************************************************************************)
(* The relay receiving telemetry (signaling.js 84-137): envelopes of type  *)
(* telemetry with a sample as payload, with payloads that are no sample,   *)
(* and with the sample's fields beside type instead of under payload.      *)
(***************************************************************************)
Sample == Obj("frame_id" :> Str("f7") @@ "overlay_display_ts" :> Num(1000))
TelemetryMessages ==
    {Json(Obj("type" :> Str("telemetry") @@ "payload" :> p)) :
        p \in {Sample, Obj(<<>>), Str("x"), Null}}
    \cup {Json(Obj("type" :> Str("telemetry") @@ "frame_id" :> Num(7)))}

ReceiveTelemetry ==
    /\ last = Idle
    /\ \E c \in clients, msg \in TelemetryMessages :
          \E failing \in SUBSET Targets(c, msg) : Message(c, msg, failing, NoReadings)

TelemetryNext ==
    \/ \E id \in Ids, threw \in BOOLEAN : Connection(id, threw)
    \/ ReceiveTelemetry
    \/ Sweep
    \/ \E c \in Conns : Close(c)
    \/ Return

SpecTelemetry == Init /\ [][TelemetryNext]_vars

(***************************************************************************)
(* The capture loops and the overlay effect of the capture component       *)
(* (part_004 159-277, 306-391, 784-839) with the telemetry wiring of the   *)
(* application (App.jsx 257-260).                                          *)
(***************************************************************************)
\* sendSingleFrame(): the interval callback of the WebSocket version.  The
\* flag inflight is declared (164) and never read or written.
sendSingleFrame(c) ==
    IF ~c.videoReady THEN c
    ELSE IF c.liveWs = "OPEN"
    THEN [Call(Call(c, [call |-> "drawImage"]), [call |-> "send", data |-> "frame"])
             EXCEPT !.outstanding = @ + 1]
    ELSE Call(c, [call |-> "drawImage"])

\* sendFrame(): the timeout callback of the posting version.  A return
\* inside the try block runs the finally block too, which sets a second timeout.
sendFrame(c) ==
    IF c.stopped THEN c
    ELSE IF ~c.videoReady THEN [c EXCEPT !.timers = @ + 2]
    ELSE IF c.inflight THEN [Call(c, [call |-> "drawImage"]) EXCEPT !.timers = @ + 2]
    ELSE [Call(Call(c, [call |-> "drawImage"]), [call |-> "fetch", data |-> "frame"])
             EXCEPT !.inflight = TRUE, !.outstanding = @ + 1, !.timers = @ + 1]

\* the methods of class WebRTCHandler
HandlerMethods ==
    {"connect", "establishConnection", "handleMessage", "handleDisconnect", "_startPing",
     "_stopPing", "sendToServer", "sendChat", "createPeer", "sendMessage", "sendDetection",
     "resetPeer", "disconnect"}

\* window.__sendTelemetry = (t) => webrtcRef.current
\*     && webrtcRef.current.sendTelemetry && webrtcRef.current.sendTelemetry(t)
windowSendTelemetry(h, t) ==
    IF "sendTelemetry" \in HandlerMethods
    THEN Call(h, [call |-> "sendTelemetry", arg |-> t])
    ELSE h

\* the detections of a result of the live receiver, with and without frame_id
ResultDetections ==
    {<<>>, <<GoodDetection>>,
     <<Obj(GoodDetection.o @@ "frame_id" :> Str("f7"))>>}

\* latest && latest.frame_id, for the last of the server detections
HasFrame(dets) == dets # <<>> /\ Truthy(Get(dets[Len(dets)], "frame_id"))

TelemetrySample(dets, now) ==
    Obj("frame_id" :> Get(dets[Len(dets)], "frame_id") @@ "overlay_display_ts" :> Num(now))

\* the telemetry part of the overlay effect, for the component
overlayTelemetry(c, dets, now) ==
    IF HasFrame(dets) /\ c.liveWs = "OPEN"
    THEN Call(c, [call |-> "send",
                  data |-> Obj("type" :> Str("telemetry")
                               @@ "payload" :> TelemetrySample(dets, now))])
    ELSE c

\* a handler whose socket has opened
ConnectedHandler ==
    [onopen([connect(NewHandler(FALSE, TRUE), GoodUrl) EXCEPT !.wsState[1] = "OPEN"])
        EXCEPT !.out = <<>>, !.roleSent = {1}]

\* a task of the component has run and left it as c, the handler as h
Captured(op, c, h) ==
    /\ capture' = c
    /\ client' = h
    /\ last' = op
    /\ UNCHANGED registryVars
    /\ UNCHANGED sent
    /\ UNCHANGED validatorVars

\* the component is mounted in server mode: the WebSocket version opens the
\* live WebSocket, the posting version calls sendFrame()
Mount(mode) ==
    /\ last = Idle
    /\ capture.mode = "none"
    /\ Captured([op |-> "mount", mode |-> mode],
                IF mode = "ws"
                THEN [capture EXCEPT !.mode = mode, !.liveWs = "CONNECTING"]
                ELSE sendFrame([capture EXCEPT !.mode = mode]),
                client)

\* the cleanups of the effects
Unmount ==
    /\ last = Idle
    /\ capture.mode # "none"
    /\ ~capture.stopped
    /\ Captured([op |-> "unmount"],
                [capture EXCEPT !.stopped = TRUE, !.interval = FALSE,
                                !.liveWs = IF @ \in {"CONNECTING", "OPEN"} THEN "CLOSED" ELSE @],
                client)

\* the video has data to draw (readyState >= 2)
VideoLoaded ==
    /\ last = Idle
    /\ capture.mode # "none"
    /\ ~capture.videoReady
    /\ Captured([op |-> "video"], [capture EXCEPT !.videoReady = TRUE], client)

\* the open event of the live WebSocket
LiveOpen ==
    /\ last = Idle
    /\ capture.liveWs = "CONNECTING"
    /\ Captured([op |-> "liveopen"], [capture EXCEPT !.liveWs = "OPEN"], client)

\* the close event of the live WebSocket: its frames are awaited no longer
LiveClose ==
    /\ last = Idle
    /\ capture.liveWs \in {"CONNECTING", "OPEN"}
    /\ Captured([op |-> "liveclose"],
                [capture EXCEPT !.liveWs = "CLOSED", !.outstanding = 0], client)

\* captureRunning becomes true: setInterval(sendSingleFrame, interval) and
\* one call at once
StartCapture ==
    /\ last = Idle
    /\ capture.mode = "ws"
    /\ ~capture.stopped
    /\ ~capture.interval
    /\ capture.outstanding < MaxFrames
    /\ Captured([op |-> "start"], sendSingleFrame([capture EXCEPT !.interval = TRUE]), client)

\* the interval fires
Tick ==
    /\ last = Idle
    /\ capture.interval
    /\ capture.outstanding < MaxFrames
    /\ Captured([op |-> "tick"], sendSingleFrame(capture), client)

\* a timeout of the posting loop fires
FrameTimer ==
    /\ last = Idle
    /\ capture.timers > 0
    /\ capture.timers < MaxTimers
    /\ Captured([op |-> "sendFrame"], sendFrame([capture EXCEPT !.timers = @ - 1]), client)

\* the fetch of the posting loop settles: .finally(() => { inflight = false })
FetchDone ==
    /\ last = Idle
    /\ capture.mode = "http"
    /\ capture.outstanding > 0
    /\ Captured([op |-> "fetched"],
                [capture EXCEPT !.outstanding = @ - 1, !.inflight = FALSE], client)

\* the live receiver answers a frame: setServerDetections(j.detections), and
\* the overlay effect draws them and sends the telemetry
LiveResult(dets, now) ==
    /\ last = Idle
    /\ capture.liveWs = "OPEN"
    /\ capture.outstanding > 0
    /\ Captured([op |-> "result", dets |-> dets, now |-> now],
                overlayTelemetry([capture EXCEPT !.outstanding = @ - 1], dets, now),
                IF HasFrame(dets)
                THEN windowSendTelemetry(client, TelemetrySample(dets, now))
                ELSE client)

\* the task has returned to the event loop
CaptureReturn ==
    /\ last # Idle
    /\ Captured(Idle, [capture EXCEPT !.out = <<>>], [client EXCEPT !.out = <<>>])

CaptureInit ==
    /\ peers = <<>>
    /\ clients = {}
    /\ readyState = [c \in Conns |-> "CLOSED"]
    /\ isAlive = [c \in Conns |-> FALSE]
    /\ peerId = [c \in Conns |-> 0]
    /\ accepted = 0
    /\ sinceResponse = [c \in Conns |-> 0]
    /\ last = Idle
    /\ sent = <<>>
    /\ vPayload = None
    /\ vResult = None
    /\ client \in {NewHandler(FALSE, TRUE), ConnectedHandler}
    /\ capture = NewCapture

CaptureNext ==
    \/ \E mode \in {"ws", "http"} : Mount(mode)
    \/ Unmount
    \/ VideoLoaded
    \/ LiveOpen
    \/ LiveClose
    \/ StartCapture
    \/ Tick
    \/ FrameTimer
    \/ FetchDone
    \/ \E dets \in ResultDetections, now \in Times : LiveResult(dets, now)
    \/ CaptureReturn

SpecCapture == CaptureInit /\ [][CaptureNext]_vars

(***************************************************************************)
(* The inference worker (inference_server.js 22-34, 46-69, 81-98).  A      *)
(* frame message is answered with a detection message; vPayload holds the  *)
(* payload the worker sends to the relay, which validates it.              *)
(***************************************************************************)
\* normalizeBoxes(predictions, width, height); the boxes and sizes drawn
\* below divide without remainder
normalizeBoxes(predictions, width, height) ==
    [j \in 1 .. Len(predictions) |->
        Obj("label" :> predictions[j].class @@ "score" :> predictions[j].score
            @@ "xmin" :> Num(predictions[j].bbox[1] \div width)
            @@ "ymin" :> Num(predictions[j].bbox[2] \div height)
            @@ "xmax" :> Num((predictions[j].bbox[1] + predictions[j].bbox[3]) \div width)
            @@ "ymax" :> Num((predictions[j].bbox[2] + predictions[j].bbox[4]) \div height))]

\* runInferenceOnImageBuffer(b64, frameId): image is what decodeImage and
\* model.detect make of b64, or Garbage when one of them throws; inferenceTs
\* and captureTs are what Date.now() reads at lines 60 and 64
runInferenceOnImageBuffer(image, frameId, inferenceTs, captureTs) ==
    IF image = Garbage THEN Null
    ELSE Obj("frame_id" :> frameId @@ "capture_ts" :> Num(captureTs)
             @@ "inference_ts" :> Num(inferenceTs)
             @@ "detections" :>
                 Arr(normalizeBoxes(image.predictions, image.width, image.height)))

\* images of 2 x 2 pixels with up to MaxDets predictions: a box over the
\* whole image, a box right of it, a box of no width
Images ==
    {Garbage} \cup
    {[width |-> 2, height |-> 2,
      predictions |-> [j \in 1 .. n |->
                          [class |-> Str("person"), score |-> Num(1), bbox |-> boxes[j]]]] :
        n \in 0 .. MaxDets,
        boxes \in [1 .. MaxDets -> {<<0, 0, 2, 2>>, <<2, 0, 2, 2>>, <<0, 0, 0, 2>>}]}

\* ws.on('message') for msg.type === 'frame': the clock does not go back
\* between the two readings
Infer(image, fid, inferenceTs, captureTs) ==
    /\ inferenceTs <= captureTs
    /\ LET frameId == IF Truthy(fid) THEN fid ELSE Str("generated")
           result == runInferenceOnImageBuffer(image, frameId, inferenceTs, captureTs)
       IN  /\ last' = [op |-> "frame", image |-> image, frame_id |-> fid]
           /\ vPayload' = IF Truthy(result) THEN result ELSE None
    /\ vResult' = None
    /\ UNCHANGED registryVars
    /\ UNCHANGED sent
    /\ UNCHANGED client
    /\ UNCHANGED capture

WorkerInit ==
    /\ peers = <<>>
    /\ clients = {}
    /\ readyState = [c \in Conns |-> "CLOSED"]
    /\ isAlive = [c \in Conns |-> FALSE]
    /\ peerId = [c \in Conns |-> 0]
    /\ accepted = 0
    /\ sinceResponse = [c \in Conns |-> 0]
    /\ last = Idle
    /\ sent = <<>>
    /\ vPayload = None
    /\ vResult = None
    /\ client = NewHandler(FALSE, TRUE)
    /\ capture = NewCapture

\* the worker answers frames; the relay validates each detection it gets
WorkerNext ==
    \/ \E image \in Images, fid \in {Undefined, Str("f7")} :
          \E inferenceTs \in Times, captureTs \in Times :
             Infer(image, fid, inferenceTs, captureTs)
    \/ vPayload # None /\ Validate

SpecWorker == WorkerInit /\ [][WorkerNext]_vars

(***************************************************************************)
(* The handler and the peer on the other side of the relay: the chat of    *)
(* the application (App.jsx 317-341, WebRTCHandler.jsx 278-303, 320-332)   *)
(* and the envelopes the relay forwards from the other peer.               *)
(***************************************************************************)
\* JSON.parse(str) for the texts of a chat: a number, a chat envelope, and
\* a text that is no JSON
JSONparse(str) ==
    CASE str = Str("5") -> Json(Num(5))
      [] str = Str("{\"type\":\"chat\",\"payload\":{\"text\":\"hi\"}}") ->
             Json(Obj("type" :> Str("chat") @@ "payload" :> Obj("text" :> Str("hi"))))
      [] OTHER -> Garbage

\* sendMessage(message) for a string; connected: what this.peer.connected
\* reads.  peer.send does not throw on a connected Peer.
sendMessage(h, message, connected) ==
    IF h.peer # 0 /\ connected
    THEN Returns(Call(h, [call |-> "peersend", peer |-> h.peer, data |-> message]), TRUE)
    ELSE Returns(h, FALSE)

\* peer.on('data'): JSON.stringify of a parsed object is the text again
ondata(h, str) ==
    IF JSONparse(str) = Garbage THEN Call(h, [call |-> "onMessage", arg |-> str])
    ELSE LET parsed == JSONparse(str).v
         IN  IF /\ Truthy(parsed)
                /\ Get(parsed, "frame_id") # Undefined
                /\ Get(parsed, "detections") # Undefined
             THEN Call(h, [call |-> "onDetection", arg |-> parsed])
             ELSE IF /\ Truthy(parsed)
                     /\ Get(parsed, "type") = Str("detection")
                     /\ Truthy(Get(parsed, "payload"))
             THEN Call(h, [call |-> "onDetection", arg |-> Get(parsed, "payload")])
             ELSE IF /\ Truthy(parsed)
                     /\ Get(parsed, "type") = Str("chat")
                     /\ Truthy(Get(parsed, "payload"))
                     /\ Truthy(Get(Get(parsed, "payload"), "text"))
             THEN Call(h, [call |-> "onMessage", arg |-> Get(Get(parsed, "payload"), "text")])
             ELSE Call(h, [call |-> "onMessage", arg |-> str])

\* what the relay sends to the client: its identity, and what peer 2 sent
PeerMessages ==
    {Json(IdEnvelope)} \cup
    {Json(Stringify(Forwarded(e, 2, 0))) :
        e \in {Obj("type" :> Str("id") @@ "id" :> IdStr(2)),
               Obj("type" :> Str("id") @@ "payload" :> Obj("id" :> IdStr(2))),
               Obj("type" :> Str("chat") @@ "payload" :> Obj("text" :> Str("hi")))}}

\* sendMessage of the application: the data channel first, then always the
\* signaling WebSocket
SendMessage(text, connected) ==
    /\ last = Idle
    /\ connected => client.peer # 0
    /\ Ran([op |-> "sendMessage", text |-> text, connected |-> connected],
           sendChat(sendMessage(client, text, connected), text))

PeersNext ==
    \/ Connect(GoodUrl)
    \/ \E k \in Sockets : Open(k)
    \/ \E k \in Sockets : SocketClose(k)
    \/ \E k \in Sockets, msg \in PeerMessages : OnMessage(k, msg)
    \/ PeerTimer
    \/ \E p \in PeerObjs : PeerClosed(p)
    \/ \E connected \in BOOLEAN :
          \E text \in {Str("hi"), Str("5"), Str("{\"type\":\"chat\",\"payload\":{\"text\":\"hi\"}}")} :
             SendMessage(text, connected)
    \/ ClientReturn

SpecPeers == ClientInit /\ [][PeersNext]_vars

(***************************************************************************)
(* The rules of the validator, stated one by one: which rules a payload    *)
(* violates does not depend on the order in which they are checked.        *)
(***************************************************************************)
IsObject(v) == v.t \in {"object", "array"}
InUnit(v) == v.t = "number" /\ 0 <= v.n /\ v.n <= 1

TopRules == <<"payload", "frame_id", "capture_ts", "inference_ts", "detections">>
DetRules == <<"object", "label", "score", "xmin", "ymin", "xmax", "ymax", "box">>

TopViolated(p, r) ==
    CASE r = "payload" -> ~IsObject(p)
      [] r = "frame_id" -> Get(p, "frame_id") = Undefined
      [] r = "capture_ts" -> Get(p, "capture_ts").t # "number"
      [] r = "inference_ts" -> Get(p, "inference_ts").t # "number"
      [] r = "detections" -> Get(p, "detections").t # "array"

\* the box rule speaks of numbers only
BoxInverted(d) ==
    /\ \A k \in {"xmin", "ymin", "xmax", "ymax"} : Get(d, k).t = "number"
    /\ \/ Get(d, "xmin").n >= Get(d, "xmax").n
       \/ Get(d, "ymin").n >= Get(d, "ymax").n

DetViolated(d, r) ==
    CASE r = "object" -> ~IsObject(d)
      [] r = "label" -> Get(d, "label").t # "string"
      [] r = "score" -> ~InUnit(Get(d, "score"))
      [] r = "box" -> BoxInverted(d)
      [] OTHER -> ~InUnit(Get(d, r))

TopReason(r) ==
    CASE r = "payload" -> Reason("payload must be an object")
      [] r = "frame_id" -> Reason("missing frame_id")
      [] r = "capture_ts" -> Reason("capture_ts must be a number (ms since epoch)")
      [] r = "inference_ts" -> Reason("inference_ts must be a number (ms since epoch)")
      [] r = "detections" -> Reason("detections must be an array")

\* the reason names the index i and the field
DetReason(r, i) ==
    CASE r = "object" -> ReasonAt("detection[i] must be an object", i)
      [] r = "label" -> ReasonAt("detection[i].label must be a string", i)
      [] r = "score" -> ReasonAt("detection[i].score must be a number in [0,1]", i)
      [] r = "box" ->
           ReasonAt("detection[i] box coordinates invalid (xmin<xmax and ymin<ymax required)", i)
      [] OTHER -> ReasonKey("detection[i].k must be number in [0,1]", i, r)

TopViolations(p) == {j \in 1 .. Len(TopRules) : TopViolated(p, TopRules[j])}

\* <<i, j>>: the detection at index i (from 0) violates the j-th rule
DetViolations(p) ==
    IF Get(p, "detections").t # "array" THEN {}
    ELSE {ij \in (0 .. Len(Get(p, "detections").a) - 1) \X (1 .. Len(DetRules)) :
             DetViolated(Get(p, "detections").a[ij[1] + 1], DetRules[ij[2]])}

Least(S) == CHOOSE x \in S : \A y \in S : x <= y
\* the first pair in the order of the indexes, then of the rules
FirstPair(S) ==
    CHOOSE ij \in S : \A kl \in S : ij[1] < kl[1] \/ (ij[1] = kl[1] /\ ij[2] <= kl[2])

\* what the first violated rule in the stated order makes the validator return
ExpectedResult(p) ==
    LET top == TopViolations(p)
    IN  IF top # {} THEN Reject(TopReason(TopRules[Least(top)]))
        ELSE LET dets == DetViolations(p)
             IN  IF dets = {} THEN Ok
                 ELSE LET first == FirstPair(dets)
                      IN  Reject(DetReason(DetRules[first[2]], first[1]))

C9_MissingFrameId ==
    (vResult # None /\ IsObject(vPayload) /\ Get(vPayload, "frame_id") = Undefined)
        => vResult = Reject(Reason("missing frame_id"))

\* no frame_id and a detections array whose first element is no object
C9_Witness ==
    /\ vResult # None
    /\ IsObject(vPayload)
    /\ Get(vPayload, "frame_id") = Undefined
    /\ <<0, 1>> \in DetViolations(vPayload)
    /\ vResult = Reject(Reason("missing frame_id"))

\* the indexes of the detections whose box has xmin >= xmax or ymin >= ymax
InvertedAt(p) ==
    IF ~IsObject(p) \/ Get(p, "detections").t # "array" THEN {}
    ELSE {i \in 0 .. Len(Get(p, "detections").a) - 1 :
             BoxInverted(Get(p, "detections").a[i + 1])}

\* C10: a payload with a detection whose xmin >= xmax or ymin >= ymax (equal
\* coordinates included) is rejected, and when that detection is the first to
\* violate any rule the reason carries its index.
C10_InvertedBoxRejected ==
    vResult # None =>
        LET first == FirstPair(DetViolations(vPayload))
        IN  \A i \in InvertedAt(vPayload) :
               /\ ~vResult.ok
               /\ (TopViolations(vPayload) = {} /\ first[1] = i)
                      => ("i" \in DOMAIN vResult.reason /\ vResult.reason.i = i)

\* a box of no area in the second detection, after a well-formed first one
C10_Witness ==
    /\ vResult # None
    /\ TopViolations(vPayload) = {}
    /\ DetViolations(vPayload) = {<<1, 8>>}
    /\ Get(vPayload, "detections").a[2] = ZeroAreaDetection
    /\ vResult = Reject(ReasonAt(
           "detection[i] box coordinates invalid (xmin<xmax and ymin<ymax required)", 1))

(***************************************************************************)
(* Properties of the relay.  A state with last.op = "message" is the     *)
(* state right after one run of the message handler: last holds the socket *)
(* and the message, sent holds the send calls of that run.                 *)
(***************************************************************************)
\* the socket's own entry is in the registry
Registered(c) == \E j \in 1 .. Len(peers) : peers[j].id = peerId[c] /\ peers[j].ws = c

\* the registered sockets that are open, but for c
OpenOthers(c) == {peers[j].ws : j \in {k \in 1 .. Len(peers) :
                                          peers[k].ws # c /\ readyState[peers[k].ws] = "OPEN"}}

\* the last run handled a message that parsed and was not a rejected detection
Relayed == last.op = "message" /\ ~Throws(last.msg) /\ ~Rejected(last.msg.v)

\* C1: a parseable message of a registered peer A that is not a rejected
\* detection is sent exactly once to every other registered open peer and not
\* to A, and every forwarded envelope has from = A's identity, whatever from
\* the message carried.
C1_BroadcastToOthers ==
    (Relayed /\ Registered(last.ws)) =>
        /\ \A b \in OpenOthers(last.ws) :
              Cardinality({j \in 1 .. Len(sent) : sent[j].to = b}) = 1
        /\ \A j \in 1 .. Len(sent) :
              /\ sent[j].to \in OpenOthers(last.ws)
              /\ Get(sent[j].data, "type") = Get(last.msg.v, "type")
              /\ Get(sent[j].data, "from") = IdStr(peerId[last.ws])

\* three peers; one whose identity is not "1" sends a chat that claims from = "1"
C1_Witness ==
    /\ Relayed
    /\ Registered(last.ws)
    /\ Get(last.msg.v, "from") = IdStr(1)
    /\ peerId[last.ws] # 1
    /\ Cardinality(OpenOthers(last.ws)) = 2
    /\ Len(sent) = 2

\* the error envelope of a rejection
ErrorEnvelope(reason) ==
    Obj("type" :> Str("error") @@ "code" :> Str("invalid_detection") @@ "reason" :> reason)

\* C2: a detection whose payload fails validateDetectionPayload is answered
\* with one error envelope (code invalid_detection, the rejection reason) to
\* its sender, nothing is sent to another peer, and the registry is unchanged.
C2_RejectedDetection ==
    [][(last'.op = "message" /\ ~Throws(last'.msg) /\ Rejected(last'.msg.v)) =>
          /\ Len(sent') = 1
          /\ sent'[1].to = last'.ws
          /\ sent'[1].data =
                 ErrorEnvelope(ExpectedResult(PayloadOf(last'.msg.v)).reason)
          /\ peers' = peers
          /\ clients' = clients]_vars

\* a score above 1 in the second detection, rejected while two other peers are open
C2_Witness ==
    /\ last.op = "message"
    /\ ~Throws(last.msg)
    /\ Get(last.msg.v, "payload") = Obj(DetectionFields(Num(7), Num(5),
                                            <<GoodDetection, BadScoreDetection>>))
    /\ Registered(last.ws)
    /\ Cardinality(OpenOthers(last.ws)) = 2
    /\ sent = <<Send(last.ws,
                     ErrorEnvelope(ReasonAt("detection[i].score must be a number in [0,1]", 1)),
                     FALSE)>>

\* C3: the payload forwarded for a valid detection is the sender's payload
\* with recv_ts set to what the server's clock read for that recipient (a
\* recv_ts of the sender is replaced); every other field is forwarded unchanged.
C3_StampedCopy ==
    (Relayed /\ IsDetection(last.msg.v)) =>
        \A j \in 1 .. Len(sent) :
            /\ Get(sent[j].data, "payload").t = "object"
            /\ DOMAIN Get(sent[j].data, "payload").o
                   = DOMAIN PayloadOf(last.msg.v).o \cup {"recv_ts"}
            /\ \A k \in DOMAIN PayloadOf(last.msg.v).o \ {"recv_ts"} :
                   Get(sent[j].data, "payload").o[k] = PayloadOf(last.msg.v).o[k]
            /\ \E k \in 1 .. Len(peers) :
                   /\ peers[k].ws = sent[j].to
                   /\ last.now[k] \in Times
                   /\ Get(sent[j].data, "payload").o["recv_ts"] = Num(last.now[k])

\* a valid detection that carries its own recv_ts, forwarded to two peers
C3_Witness ==
    /\ Relayed
    /\ IsDetection(last.msg.v)
    /\ Get(PayloadOf(last.msg.v), "recv_ts") = Num(5)
    /\ Len(sent) = 2

\* C4: a sweep terminates exactly the sockets that were visited by the sweep
\* before it and sent no pong since, and marks and pings every other socket;
\* an open socket has been visited by at most one sweep since its last pong
\* (so the second sweep without a pong terminates it, and a socket that
\* answers every ping is never terminated); the close event takes the
\* socket's identity out of the registry, and a closed socket has no entry.
C4_LivenessSweep ==
    /\ last.op = "sweep" =>
          \A c \in clients :
              /\ c \in last.terminated <=> sinceResponse[c] = 2
              /\ c \in last.pinged <=> sinceResponse[c] = 1
              /\ c \in last.terminated => readyState[c] = "CLOSING"
              /\ c \in last.pinged => isAlive[c] = FALSE
    /\ \A c \in clients : readyState[c] = "OPEN" => sinceResponse[c] <= 1
    /\ last.op = "close" => last.id \notin MapKeys(peers)
    /\ \A j \in 1 .. Len(peers) : peers[j].ws \in clients

\* a sweep that terminates one socket and pings another
C4_Witness ==
    /\ last.op = "sweep"
    /\ last.terminated # {}
    /\ last.pinged # {}
    /\ \E c \in last.pinged : readyState[c] = "OPEN"

\* C5: every identity in the registry belongs to one live connection, and no
\* two live connections have the same identity.
C5_UniqueIdentity ==
    /\ \A j \in 1 .. Len(peers) :
          peers[j].ws \in clients /\ peerId[peers[j].ws] = peers[j].id
    /\ \A c \in clients : \A d \in clients : c # d => peerId[c] # peerId[d]

\* C6: when a send of a broadcast throws, the send is still called for every
\* other registered open peer, and no socket is closed or taken out of the
\* registry by the run.
C6_SendFailureIsolated ==
    [][(last'.op = "message" /\ ~Throws(last'.msg) /\ ~Rejected(last'.msg.v)
          /\ \E j \in 1 .. Len(sent') : sent'[j].threw) =>
          /\ {sent'[j].to : j \in 1 .. Len(sent')}
                 = {peers[j].ws : j \in {k \in 1 .. Len(peers) :
                                          peers[k].id # peerId[last'.ws]
                                          /\ readyState[peers[k].ws] = "OPEN"}}
          /\ peers' = peers
          /\ clients' = clients
          /\ readyState' = readyState]_vars

\* the first of two sends threw and the second was made
C6_Witness ==
    /\ Relayed
    /\ Len(sent) = 2
    /\ sent[1].threw
    /\ ~sent[2].threw

\* C7: a message that JSON.parse rejects makes the server send nothing and
\* change neither the registry nor any liveness flag.
C7_UnparseableDropped ==
    [][(last'.op = "message" /\ last'.msg = Garbage) =>
          /\ sent' = <<>>
          /\ peers' = peers
          /\ clients' = clients
          /\ isAlive' = isAlive
          /\ readyState' = readyState]_vars

\* unparseable text from one of two registered peers, the other one pinged
C7_Witness ==
    /\ last.op = "message"
    /\ last.msg = Garbage
    /\ Len(peers) = 2
    /\ \E c \in clients : c # last.ws /\ ~isAlive[c]
    /\ sent = <<>>

(***************************************************************************)
(* Further properties of the validator.                                    *)
(***************************************************************************)
\* C11: a payload that has a frame_id, a numeric capture_ts, a numeric
\* inference_ts and an empty detections array is accepted.
C11_EmptyDetectionsOk ==
    (/\ vResult # None
     /\ vPayload.t = "object"
     /\ Get(vPayload, "frame_id") # Undefined
     /\ Get(vPayload, "capture_ts").t = "number"
     /\ Get(vPayload, "inference_ts").t = "number"
     /\ Get(vPayload, "detections") = Arr(<<>>))
        => vResult = Ok

\* a textual frame_id, both timestamps and no detection: accepted
C11_Witness ==
    /\ vResult = Ok
    /\ Get(vPayload, "frame_id") = Str("f7")
    /\ Get(vPayload, "capture_ts") = Num(990)
    /\ Get(vPayload, "inference_ts") = Num(995)
    /\ Get(vPayload, "detections") = Arr(<<>>)

\* the indexes of the detections whose label is not a non-empty string
UnlabelledAt(p) ==
    IF ~IsObject(p) \/ Get(p, "detections").t # "array" THEN {}
    ELSE {i \in 0 .. Len(Get(p, "detections").a) - 1 :
             LET label == Get(Get(p, "detections").a[i + 1], "label")
             IN  label.t # "string" \/ label.s = ""}

\* C12: a payload with a detection whose label is not a non-empty string (the
\* empty string included) is rejected.
C12_EmptyLabelRejected ==
    (vResult # None /\ UnlabelledAt(vPayload) # {}) => ~vResult.ok


(***************************************************************************)
(* Properties of the client handler.  After a task, last names the task    *)
(* and client.out holds the calls it made; the unprimed client of a step   *)
(* is the handler before the task.                                         *)
(***************************************************************************)
\* C13: every open event leaves the handler Connected with exactly one
\* keepalive interval running and sends exactly one envelope, the role
\* envelope, on the socket that opened (initiator if the handler has a
\* capture stream, receiver otherwise); no other envelope goes to a socket
\* before its role envelope.
C13_RoleOnOpen ==
    [][/\ last'.op = "onopen" =>
             /\ client'.connected
             /\ client'.intervals = 1
             /\ client'.out =
                    <<[call |-> "send", to |-> last'.ws,
                       data |-> Obj("type" :> Str("role")
                                    @@ "payload" :>
                                        Obj("role" :> Str(IF client.stream THEN "initiator"
                                                          ELSE "receiver")))]>>
       /\ \A j \in 1 .. Len(client'.out) :
             (client'.out[j].call = "send" /\ Get(client'.out[j].data, "type") # Str("role"))
                 => client'.out[j].to \in client.roleSent]_vars

\* a connection is being attempted or a reconnection is scheduled
RetryPending(h) ==
    h.timers # <<>> \/ \E k \in Sockets : h.wsState[k] = "CONNECTING"

\* C14: once connect was called, a handler that is not Connected and whose
\* attempt counter is below maxReconnectAttempts has a connection attempt
\* under way or a reconnection scheduled: a failed attempt, the first one
\* included, leads to the next attempt or to PermanentlyFailed, never to rest.
C14_RetryOrFailed ==
    (/\ client.wsUrl # Null
     /\ ~client.connected
     /\ client.reconnectAttempts < maxReconnectAttempts)
        => RetryPending(client)

\* C15: a socket's error or close event that finds the handler Connected
\* adds one to the attempt counter and, while the counter is below
\* maxReconnectAttempts, schedules one reconnection after
\* reconnectDelay * 2^(attempt-1); the close event that follows the error
\* event of the same socket changes neither the counter nor the timers.
C15_LossCountedOnce ==
    [][/\ (last'.op \in {"onerror", "onclose"} /\ client.connected) =>
             /\ ~client'.connected
             /\ client'.reconnectAttempts = client.reconnectAttempts + 1
             /\ client'.timers =
                    IF client'.reconnectAttempts < maxReconnectAttempts
                    THEN Append(client.timers,
                                reconnectDelay * 2 ^ (client'.reconnectAttempts - 1))
                    ELSE client.timers
       /\ (last.op = "onerror" /\ last'.op = "onclose") =>
             /\ last'.ws = last.ws
             /\ client'.reconnectAttempts = client.reconnectAttempts
             /\ client'.timers = client.timers]_vars

\* the error event and then the close event of the socket of a Connected
\* handler: one attempt counted, one reconnection after 2000 ms
C15_Witness ==
    /\ last.op = "onclose"
    /\ last.afterError
    /\ last.lost
    /\ client.reconnectAttempts = 1
    /\ client.timers = <<2000>>
    /\ client.intervals = 0

\* C16: from disconnect() until the next connect call of the application
\* the handler constructs no socket and is never Connected.
C16_DisconnectIsFinal ==
    [][(client.disconnected /\ last'.op # "connect") =>
          /\ ~client'.connected
          /\ \A k \in Sockets :
                client.wsState[k] = "NONE" => client'.wsState[k] = "NONE"]_vars

\* C17: once the attempt counter has reached maxReconnectAttempts the
\* handler constructs no socket until the application calls connect with an
\* address, and that call constructs one: ws is a new socket that is connecting.
C17_ConnectAfterGivingUp ==
    [][client.reconnectAttempts >= maxReconnectAttempts =>
          IF last'.op = "connect" /\ last'.url = GoodUrl
          THEN /\ client'.ws # 0
               /\ client.wsState[client'.ws] = "NONE"
               /\ client'.wsState[client'.ws] = "CONNECTING"
          ELSE \A k \in Sockets :
                  client.wsState[k] = "NONE" => client'.wsState[k] = "NONE"]_vars

\* after a connect call the handler is not Connected, attempts no connection
\* and has no reconnection scheduled
GivenUp(h) == h.wsUrl # Null /\ ~h.connected /\ ~RetryPending(h)

\* the callbacks the application gave the constructor
AppCallbacks == {"onStream", "onConnect", "onMessage", "onDetection"}

\* C18: the task in which the handler gives up tells the application: it
\* calls one of its callbacks, or it leaves the fields the application can
\* read in the state of a permanent failure (the counter at its maximum),
\* which no connecting or reconnecting handler is in.
C18_FailureSurfaced ==
    [][(GivenUp(client') /\ ~GivenUp(client)) =>
          \/ client'.reconnectAttempts >= maxReconnectAttempts
          \/ \E j \in 1 .. Len(client'.out) : client'.out[j].call \in AppCallbacks]_vars

\* C19: no keepalive interval runs while the handler is not Connected.
C19_NoPingWhenNotConnected == ~client.connected => client.intervals = 0

\* the state disconnect() leaves the handler in
PostDisconnect(h) ==
    ~h.connected /\ h.reconnectAttempts = maxReconnectAttempts /\ h.peer = 0 /\ h.ws = 0

\* C20: disconnect() leaves the handler not connected, with the counter at
\* its maximum, without peer-link object and without socket; called in that
\* state it changes no field and no browser object and makes no call.
C20_DisconnectIdempotent ==
    [][last'.op = "disconnect" =>
          /\ PostDisconnect(client')
          /\ PostDisconnect(client) =>
                /\ client'.out = <<>>
                /\ [client' EXCEPT !.disconnected = TRUE, !.out = <<>>]
                       = [client EXCEPT !.disconnected = TRUE, !.out = <<>>]]_vars

\* disconnect() called again right after a call that closed the socket of a
\* Connected handler with a peer-link object
C20_Witness ==
    /\ last.op = "disconnect"
    /\ last.again
    /\ client.out = <<>>
    /\ client.intervals = 1
    /\ \E k \in Sockets : client.wsState[k] = "CLOSING"
    /\ \E p \in PeerObjs : client.peerObjs[p].state = "CLOSED"
    /\ client.peerTimers = 1

(***************************************************************************)
(* Properties of the handler in a session.                                 *)
(***************************************************************************)
\* C21: sendChat(text) and sendDetection(object) change no field of the
\* handler and no browser object; without a socket, or with a socket that is
\* not open, they make no call and return false; with an open socket they
\* call send once, with the envelope {type: chat, payload: {text}} or
\* {type: detection, payload: object} whatever the object holds, and return true.
C21_BestEffortSend ==
    [][(last'.op \in {"sendChat", "sendDetection"} /\ "t" \in DOMAIN last'.arg) =>
          /\ [client' EXCEPT !.out = <<>>] = [client EXCEPT !.out = <<>>]
          /\ client'.out =
                IF client.ws # 0 /\ client.wsState[client.ws] = "OPEN"
                THEN <<[call |-> "send", to |-> client.ws,
                        data |-> IF last'.op = "sendChat"
                                 THEN Obj("type" :> Str("chat")
                                          @@ "payload" :> Obj("text" :> last'.arg))
                                 ELSE Obj("type" :> Str("detection")
                                          @@ "payload" :> last'.arg)],
                       [call |-> "return", value |-> TRUE]>>
                ELSE <<[call |-> "return", value |-> FALSE]>>]_vars

\* sendDetection of an object without any field of a detection, on an open
\* socket: sent as it is
C21_Witness ==
    /\ last = [op |-> "sendDetection", arg |-> Obj(<<>>)]
    /\ client.ws # 0
    /\ client.wsState[client.ws] = "OPEN"
    /\ client.out = <<[call |-> "send", to |-> client.ws,
                       data |-> Obj("type" :> Str("detection") @@ "payload" :> Obj(<<>>))],
                      [call |-> "return", value |-> TRUE]>>

\* C22: the task that receives the relay's error envelope for a detection
\* the handler sent calls a callback of the application.
C22_ServerErrorSurfaced ==
    [][(/\ last.op = "sendDetection"
        /\ last'.op = "onmessage"
        /\ Get(last'.msg.v, "type") = Str("error"))
          => \E j \in 1 .. Len(client'.out) : client'.out[j].call \in AppCallbacks]_vars

\* the signal calls of a task, in order
SignalCalls(h) == SelectSeq(h.out, LAMBDA c : c.call = "signal")

\* the Peer the step constructs (0: none)
NewPeer(before, after) ==
    IF \E p \in PeerObjs : before.peerObjs[p].state = "NONE" /\ after.peerObjs[p].state = "LIVE"
    THEN CHOOSE p \in PeerObjs :
             before.peerObjs[p].state = "NONE" /\ after.peerObjs[p].state = "LIVE"
    ELSE 0

\* the step delivers a signal envelope of another peer, with a payload that
\* wraps no further payload, to a handler without Peer
Buffers(before, op) ==
    /\ op.op = "onmessage"
    /\ Get(op.msg.v, "type") = Str("signal")
    /\ Get(op.msg.v, "from") # before.clientId
    /\ Truthy(Get(op.msg.v, "payload"))
    /\ Get(Get(op.msg.v, "payload"), "payload") = Undefined
    /\ before.peer = 0

\* C23: a signal that arrives while the handler has no Peer is stored in
\* pendingSignal, replacing what was stored, and is not applied; a step that
\* constructs a Peer applies the stored signal to it, once, and empties the
\* store, and applies nothing when the store is empty; otherwise only the
\* arrival of a signal changes a stored signal.
C23_BufferedSignalAppliedOnce ==
    [][/\ Buffers(client, last') =>
             /\ client'.pendingSignal = Get(last'.msg.v, "payload")
             /\ SignalCalls(client') = <<>>
       /\ NewPeer(client, client') # 0 =>
             /\ SignalCalls(client') =
                    IF Truthy(client.pendingSignal)
                    THEN <<[call |-> "signal", peer |-> NewPeer(client, client'),
                            data |-> client.pendingSignal]>>
                    ELSE <<>>
             /\ ~Truthy(client'.pendingSignal)
       /\ (Truthy(client.pendingSignal) /\ NewPeer(client, client') = 0
             /\ ~(last'.op = "onmessage" /\ Get(last'.msg.v, "type") = Str("signal")))
             => client'.pendingSignal = client.pendingSignal]_vars

\* the identity arrives after an offer was stored: the Peer is constructed
\* and the offer applied to it
C23_Witness ==
    /\ last.op = "onmessage"
    /\ last.msg = Json(IdEnvelope)
    /\ client.peer # 0
    /\ client.out = <<[call |-> "signal", peer |-> client.peer, data |-> Offer]>>
    /\ client.pendingSignal = Null

\* C24: every payload passed to the signal operation of a Peer has one of
\* the keys sdp, type and candidate.
C24_OnlySignalsApplied ==
    \A j \in 1 .. Len(client.out) :
        client.out[j].call = "signal"
            => \E key \in {"sdp", "type", "candidate"} : Get(client.out[j].data, key) # Undefined

\* C25: every signal a Peer emits is sent once, unchanged, as the payload of
\* a signal envelope on the handler's socket.
C25_SignalForwarded ==
    [][last'.op = "onsignal" =>
          /\ client.ws # 0
          /\ client'.out = <<[call |-> "send", to |-> client.ws,
                              data |-> Obj("type" :> Str("signal")
                                           @@ "payload" :> Offer)]>>]_vars

\* the Peer objects that exist: constructed and not destroyed or closed
LivePeers(h) == {p \in PeerObjs : h.peerObjs[p].state = "LIVE"}

\* C26: an identity envelope that finds the handler without Peer, in a
\* browser with WebRTC, makes it construct one Peer, on a socket it has
\* declared its role on and with initiator as in that declaration (initiator
\* for a handler with a capture stream); an identity envelope that finds a
\* Peer constructs nothing; at most one Peer exists at any time.
C26_PeerOnIdentity ==
    [][/\ (last'.op = "onmessage" /\ last'.msg = Json(IdEnvelope)) =>
             IF client.peer = 0 /\ client.webrtc
             THEN /\ last'.ws \in client.roleSent
                  /\ client'.peer # 0
                  /\ LivePeers(client') = LivePeers(client) \cup {client'.peer}
                  /\ client.peerObjs[client'.peer].state = "NONE"
                  /\ client'.peerObjs[client'.peer].initiator = client.stream
             ELSE LivePeers(client') = LivePeers(client)
       /\ Cardinality(LivePeers(client')) <= 1]_vars

(***************************************************************************)
(* Telemetry at the relay.                                                 *)
(***************************************************************************)
\* C29: a telemetry envelope that arrives at the relay is sent once to every
\* registered open socket but the sender's, as {type: telemetry, from, payload}
\* with the payload as it came, whatever the payload is; nothing is sent to
\* the sender.
C29_TelemetryRelayed ==
    (/\ last.op = "message"
     /\ ~Throws(last.msg)
     /\ Get(last.msg.v, "type") = Str("telemetry")) =>
        /\ \A b \in OpenOthers(last.ws) :
              Cardinality({j \in 1 .. Len(sent) : sent[j].to = b}) = 1
        /\ \A j \in 1 .. Len(sent) :
              /\ sent[j].to \in OpenOthers(last.ws)
              /\ sent[j].data = Obj("type" :> Str("telemetry")
                                    @@ "from" :> IdStr(peerId[last.ws])
                                    @@ "payload" :> PayloadOf(last.msg.v))

(***************************************************************************)
(* Properties of the capture component.                                    *)
(***************************************************************************)
\* C27: a tick of the capture loop that fires while the result of a frame
\* is awaited draws no frame, sends none and sets no further timeout than
\* the one it replaces.
C27_BusyTickSkipped ==
    [][(last'.op \in {"tick", "sendFrame"} /\ capture.outstanding > 0) =>
          /\ capture'.out = <<>>
          /\ capture'.outstanding = capture.outstanding
          /\ capture'.timers <= capture.timers]_vars

\* C28: at most one frame is awaited from the inference collaborator.
C28_SingleInFlight == capture.outstanding <= 1

\* C30: when the overlay of server detections with a frame_id is drawn and
\* the handler's socket is open, the handler sends
\* {type: telemetry, payload: {frame_id, overlay_display_ts}} on that socket.
C30_TelemetrySent ==
    [][(/\ last'.op = "result"
        /\ HasFrame(last'.dets)
        /\ client.ws # 0
        /\ client.wsState[client.ws] = "OPEN") =>
          client'.out =
              <<[call |-> "send", to |-> client.ws,
                 data |-> Obj("type" :> Str("telemetry")
                              @@ "payload" :>
                                  Obj("frame_id" :> Get(last'.dets[Len(last'.dets)], "frame_id")
                                      @@ "overlay_display_ts" :> Num(last'.now)))]>>]_vars

(***************************************************************************)
(* The relay's handlers run one at a time on the event loop: the sends of  *)
(* a run are all made before the next event is handled.                    *)
(***************************************************************************)
\* C31: no handler sends to a socket whose close event has been handled,
\* and between two handlers the registry is whole: every entry is the
\* identity of a socket whose close event is still to come, once.
C31_NoSendAfterClose ==
    /\ \A j \in 1 .. Len(sent) : sent[j].to \in clients /\ readyState[sent[j].to] = "OPEN"
    /\ \A j \in 1 .. Len(peers) :
          /\ peers[j].ws \in clients
          /\ peers[j].id = peerId[peers[j].ws]
          /\ \A k \in 1 .. Len(peers) : peers[k].id = peers[j].id => k = j

\* a message is forwarded to an open peer after another socket has closed
C31_Witness ==
    /\ last.op = "message"
    /\ sent # <<>>
    /\ sent[1].to # last.ws
    /\ \E c \in 1 .. accepted : c \notin clients

C34_IdentityFirst ==
    [][/\ accepted' # accepted =>
             /\ Len(sent') = 1
             /\ sent'[1].to = accepted'
             /\ sent'[1].data = Obj("type" :> Str("id") @@ "id" :> IdStr(peerId'[accepted']))
       /\ accepted' = accepted =>
             \A j \in 1 .. Len(sent') : sent'[j].to <= accepted]_vars

\* the socket accepted last is sent a forwarded envelope by the next run
C34_Witness ==
    /\ last.op = "message"
    /\ accepted = MaxConns
    /\ \E j \in 1 .. Len(sent) : sent[j].to = accepted /\ ~sent[j].threw

(***************************************************************************)
(* Properties of the inference worker.                                     *)
(***************************************************************************)
\* C32: every detection payload the worker sends has
\* inference_ts >= capture_ts.
C32_InferenceAfterCapture ==
    (last.op = "frame" /\ vPayload # None) =>
        Get(vPayload, "inference_ts").n >= Get(vPayload, "capture_ts").n

(***************************************************************************)
(* Properties of the handler's sockets and peer timers.                    *)
(***************************************************************************)
\* C35: while connected is true, ws is a socket of the handler that is open.
C35_ConnectedHasSocket ==
    client.connected => client.ws # 0 /\ client.wsState[client.ws] = "OPEN"

\* the sockets of the handler that are connecting or open
LiveSockets(h) == {k \in Sockets : h.wsState[k] \in {"CONNECTING", "OPEN"}}

\* C36: at most one socket of the handler is connecting or open, and the
\* error or close event of a socket that is not the handler's ws neither
\* changes connected nor sets a reconnection timer.
C36_OneTransport ==
    [][/\ Cardinality(LiveSockets(client')) <= 1
       /\ (last'.op \in {"onerror", "onclose"} /\ last'.ws # client.ws) =>
             /\ client'.connected = client.connected
             /\ client'.timers = client.timers]_vars

\* C37: from the return of disconnect() until the application calls
\* connect, no task constructs a Peer.
C37_NoPeerAfterDisconnect ==
    [][(client.disconnected /\ client'.disconnected) =>
          Constructed(client') = Constructed(client)]_vars

\* C39: the posting loop has at most one timeout pending, and a call of
\* sendFrame after the cleanup has set stopped draws and posts nothing.
C39_OneTimer ==
    [][/\ capture'.mode = "http" => capture'.timers <= 1
       /\ (last'.op = "sendFrame" /\ capture.stopped) => capture'.out = <<>>]_vars

(***************************************************************************)
(* Properties of the handler among its peers.                              *)
(***************************************************************************)
\* C38: an envelope the relay forwards from another peer (it has a from)
\* neither changes clientId nor makes the handler construct a Peer.
C38_IdentityFromServerOnly ==
    [][(last'.op = "onmessage" /\ last'.msg.kind = "json"
          /\ Get(last'.msg.v, "from") # Undefined) =>
          /\ client'.clientId = client.clientId
          /\ Constructed(client') = Constructed(client)]_vars

\* the handler of the receiving application: connected, with its identity
\* and a Peer
Receiver == [handleMessage(ConnectedHandler, IdEnvelope) EXCEPT !.out = <<>>]

\* the calls the receiving handler makes for a call of the sender: the data
\* of the Peer arrives as it is, an envelope comes through the relay
ReceivedFor(c) ==
    IF c.call = "peersend" THEN ondata(Receiver, c.data).out
    ELSE IF c.call = "send" THEN onmessage(Receiver, Json(Stringify(Forwarded(c.data, 2, 0)))).out
    ELSE <<>>

\* the onMessage calls of the receiving application for the calls of a task
RECURSIVE Delivered(_)
Delivered(calls) ==
    IF calls = <<>> THEN <<>>
    ELSE SelectSeq(ReceivedFor(Head(calls)), LAMBDA r : r.call = "onMessage")
             \o Delivered(Tail(calls))

\* C40: a chat the application sends once, over whatever is open, is
\* delivered once to the onMessage callback of the receiving application.
C40_ChatDeliveredOnce ==
    (last.op = "sendMessage"
       /\ \E j \in 1 .. Len(client.out) : client.out[j].call \in {"peersend", "send"}) =>
        Len(Delivered(client.out)) = 1

=============================================================================
